---- MODULE Spec2Model ----
(***************************************************************************)
(* Eligibility engine of rsu_identity (apps/eligibility/services.py):      *)
(* rule operators, graduated scoring, the rule evaluation pass and the     *)
(* composite decision, over exact rational arithmetic.                     *)
(*                                                                         *)
(* Numbers are Python floats in the source; here they are exact rationals  *)
(* [n, d] in lowest terms with d > 0, so rounding error of binary floating *)
(* point is not modelled.  JSON/context values are tagged records.         *)
(***************************************************************************)
EXTENDS Integers, Sequences, FiniteSets, TLC

VARIABLES
    eligibility_rules,   \* program.eligibility_rules: sequence of EligibilityRule rows
    allocated_budget,    \* program.allocated_budget
    total_budget,        \* program.total_budget
    context,             \* evaluation context: field name -> value
    rule_results,        \* result of _evaluate_rules (in insertion order), or <<>>
    eligibility_result,  \* result of _calculate_final_eligibility
    pc,                  \* position inside evaluate_person_eligibility
    calls,               \* running evaluate_person_eligibility calls
    cache,               \* django cache: person -> cached evaluation
    evaluations,         \* rows of the eligibility_evaluations table
    decisions,           \* decisions of the completed runs over one rule set
    person,              \* person handed to calculate_vulnerability_score
    context_data,        \* auxiliary data handed to it, or None
    overall_score,       \* its weighted score before rounding, or None
    vulnerability_level, \* the level of overall_score, or "none"
    vulnerability_score, \* the row calculate_vulnerability_score returned
    vulnerability_scores, \* rows of the eligibility_vulnerability_scores table
    voucher,             \* a row of programs_digital_vouchers, or None
    voucher_result,      \* what the latest call on the voucher returned, or None
    program,             \* counters of the program enrolled into, or None
    enrollments,         \* rows of the programs_enrollments table
    enroll_calls,        \* running enroll_beneficiary calls
    payments,            \* rows of the payments table, by id
    tasks                \* the process_payment_task of each payment

engineVars == <<calls, cache, evaluations, decisions>>

vulnerabilityVars == <<person, context_data, overall_score, vulnerability_level,
                       vulnerability_score, vulnerability_scores>>

voucherVars == <<voucher, voucher_result>>

enrollmentVars == <<program, enrollments, enroll_calls>>

paymentVars == <<payments, tasks>>

programVars == <<voucherVars, enrollmentVars, paymentVars>>

vars == <<eligibility_rules, allocated_budget, total_budget, context,
          rule_results, eligibility_result, pc, engineVars, vulnerabilityVars,
          programVars>>

----------------------------------------------------------------------------
(* Bounds of the model *)

MaxRules == 2      \* most rules a program holds
MaxBudget == 1     \* total budget of the program; allocated ranges over 0..MaxBudget
MaxExpected == 4   \* largest threshold of a numeric rule in the single-rule model
MaxEvaluations == 2  \* rows of eligibility_evaluations after which no new call starts

----------------------------------------------------------------------------
(* Values: None, numbers, strings (sequences of characters) and lists *)

NoneVal == [kind |-> "none"]

Num(n) == [kind |-> "num", num |-> n]

Str(s) == [kind |-> "str", str |-> s]

List(l) == [kind |-> "list", list |-> l]

(* an int too large for a float, 10**400: JSON integers have no upper limit *)
BigInt == [kind |-> "bigint"]

(* Exact rationals *)

Abs(x) == IF x < 0 THEN -x ELSE x

RECURSIVE GCD(_, _)
GCD(a, b) == IF b = 0 THEN a ELSE GCD(b, a % b)

Rat(n, d) ==
    LET s == IF d < 0 THEN -1 ELSE 1
        g == GCD(Abs(n), Abs(d))
    IN  [n |-> (s * n) \div g, d |-> (s * d) \div g]

RatInt(k) == [n |-> k, d |-> 1]

RatAdd(x, y) == Rat(x.n * y.d + y.n * x.d, x.d * y.d)

RatSub(x, y) == Rat(x.n * y.d - y.n * x.d, x.d * y.d)

RatMul(x, y) == Rat(x.n * y.n, x.d * y.d)

RatDiv(x, y) == Rat(x.n * y.d, x.d * y.n)

RatLE(x, y) == x.n * y.d <= y.n * x.d

RatLT(x, y) == x.n * y.d < y.n * x.d

RatMin(x, y) == IF RatLE(x, y) THEN x ELSE y

RatMax(x, y) == IF RatLE(y, x) THEN x ELSE y

(* round(x, 2): the nearest hundredth, ties to the even one; in hundredths *)
Round2(x) ==
    LET num == x.n * 100
        q == num \div x.d
        r == num - q * x.d
    IN  IF 2 * r < x.d THEN q
        ELSE IF 2 * r > x.d THEN q + 1
        ELSE IF q % 2 = 0 THEN q ELSE q + 1

----------------------------------------------------------------------------
(* Binary floating point (IEEE 754 binary64, round to nearest, ties to     *)
(* even) for the sums and the quotient of _calculate_final_eligibility,    *)
(* where the order of the additions shows in the result.  A natural number *)
(* of any size is its sequence of digits in base LimbBase, lowest digit    *)
(* first, without high zero digits; a float is m * 2^e with a mantissa m   *)
(* of exactly MantissaBits bits, or zero.  Only non-negative floats in the *)
(* normal range occur.                                                     *)

MantissaBits == 53

LimbBits == 14

LimbBase == 16384

RECURSIVE Pow2(_)
Pow2(k) == IF k = 0 THEN 1 ELSE 2 * Pow2(k - 1)

RECURSIVE IntBitLen(_)
IntBitLen(n) == IF n = 0 THEN 0 ELSE 1 + IntBitLen(n \div 2)

RECURSIVE BigOf(_)
BigOf(n) == IF n = 0 THEN <<>> ELSE <<n % LimbBase>> \o BigOf(n \div LimbBase)

RECURSIVE BigToInt(_)
BigToInt(a) == IF a = <<>> THEN 0 ELSE Head(a) + LimbBase * BigToInt(Tail(a))

RECURSIVE BigStrip(_)
BigStrip(a) ==
    IF a = <<>> \/ a[Len(a)] # 0 THEN a ELSE BigStrip(SubSeq(a, 1, Len(a) - 1))

BigLimb(a, i) == IF i >= 1 /\ i <= Len(a) THEN a[i] ELSE 0

(* the sum digit by digit from digit i upwards, with carry c *)
RECURSIVE BigAddFrom(_, _, _, _, _)
BigAddFrom(a, b, i, c, sum) ==
    IF i > Len(a) /\ i > Len(b)
    THEN (IF c > 0 THEN Append(sum, c) ELSE sum)
    ELSE LET s == BigLimb(a, i) + BigLimb(b, i) + c
         IN  BigAddFrom(a, b, i + 1, s \div LimbBase, Append(sum, s % LimbBase))

BigAdd(a, b) == BigAddFrom(a, b, 1, 0, <<>>)

(* the difference digit by digit from digit i upwards, with borrow c *)
RECURSIVE BigSubFrom(_, _, _, _, _)
BigSubFrom(a, b, i, c, diff) ==
    IF i > Len(a) THEN BigStrip(diff)
    ELSE LET d == BigLimb(a, i) - BigLimb(b, i) - c
         IN  BigSubFrom(a, b, i + 1, IF d < 0 THEN 1 ELSE 0,
                        Append(diff, (d + LimbBase) % LimbBase))

(* a - b for a >= b *)
BigSub(a, b) == BigSubFrom(a, b, 1, 0, <<>>)

RECURSIVE BigLessFrom(_, _, _)
BigLessFrom(a, b, i) ==
    IF i = 0 THEN FALSE
    ELSE IF a[i] # b[i] THEN a[i] < b[i]
    ELSE BigLessFrom(a, b, i - 1)

BigLT(a, b) ==
    IF Len(a) # Len(b) THEN Len(a) < Len(b) ELSE BigLessFrom(a, b, Len(a))

(* a * LimbBase^k *)
BigShift(a, k) == IF a = <<>> THEN <<>> ELSE [i \in 1..k |-> 0] \o a

(* a * s for a digit s, from digit i upwards with carry c *)
RECURSIVE BigScaleFrom(_, _, _, _, _)
BigScaleFrom(a, s, i, c, product) ==
    IF i > Len(a)
    THEN BigStrip(IF c > 0 THEN Append(product, c) ELSE product)
    ELSE LET p == a[i] * s + c
         IN  BigScaleFrom(a, s, i + 1, p \div LimbBase, Append(product, p % LimbBase))

BigScale(a, s) == BigScaleFrom(a, s, 1, 0, <<>>)

RECURSIVE BigMul(_, _)
BigMul(a, b) ==
    IF b = <<>> THEN <<>>
    ELSE BigAdd(BigScale(a, Head(b)), BigShift(BigMul(a, Tail(b)), 1))

(* 2^k *)
BigPow2(k) == BigShift(<<Pow2(k % LimbBits)>>, k \div LimbBits)

BigBitLen(a) ==
    IF a = <<>> THEN 0 ELSE LimbBits * (Len(a) - 1) + IntBitLen(a[Len(a)])

(* floor(a / 2^k) *)
BigShr(a, k) ==
    LET drop == k \div LimbBits
        p    == Pow2(k % LimbBits)
        rest == IF drop >= Len(a) THEN <<>> ELSE SubSeq(a, drop + 1, Len(a))
    IN  BigStrip([i \in 1..Len(rest) |->
                     (rest[i] \div p) + (BigLimb(rest, i + 1) % p) * (LimbBase \div p)])

(* a mod 2^k *)
BigLow(a, k) ==
    LET drop == k \div LimbBits
        p    == Pow2(k % LimbBits)
    IN  IF drop >= Len(a) THEN a
        ELSE BigStrip(Append(SubSeq(a, 1, drop), a[drop + 1] % p))

(* one digit of a quotient: the largest q with q * b <= r, for r < b *     *)
(* LimbBase and a divisor b whose highest digit is at least LimbBase / 2;  *)
(* the estimate from the two highest digits of r is at most 2 too large    *)
QuotientDigit(r, b) ==
    LET n        == Len(b)
        top      == BigLimb(r, n + 1) * LimbBase + BigLimb(r, n)
        estimate == IF top \div b[n] > LimbBase - 1 THEN LimbBase - 1
                    ELSE top \div b[n]
    IN  IF ~BigLT(r, BigScale(b, estimate)) THEN estimate
        ELSE IF ~BigLT(r, BigScale(b, estimate - 1)) THEN estimate - 1
        ELSE estimate - 2

(* long division from digit i of a downwards: <<quotient, remainder>> *)
RECURSIVE BigDivFrom(_, _, _, _, _)
BigDivFrom(a, b, i, q, r) ==
    IF i = 0 THEN <<BigStrip(q), r>>
    ELSE LET shifted == BigStrip(<<a[i]>> \o r)
             digit   == QuotientDigit(shifted, b)
         IN  BigDivFrom(a, b, i - 1, <<digit>> \o q,
                        BigSub(shifted, BigScale(b, digit)))

(* <<floor(a / b), a mod b = 0>> for b > 0: both are scaled by a power of  *)
(* two that brings the highest digit of b to at least LimbBase / 2         *)
BigDiv(a, b) ==
    LET scale == Pow2(LimbBits - IntBitLen(b[Len(b)]))
        qr    == BigDivFrom(BigScale(a, scale), BigScale(b, scale), Len(BigScale(a, scale)),
                            <<>>, <<>>)
    IN  <<qr[1], qr[2] = <<>> >>

BigOdd(a) == a # <<>> /\ a[1] % 2 = 1

(* a / 2^k, for k > 0, rounded to the nearest natural number, ties to the  *)
(* even one; with sticky the value rounded lies strictly above a / 2^k     *)
BigRoundShift(a, k, sticky) ==
    LET kept == BigShr(a, k)
        low  == BigLow(a, k)
        half == BigPow2(k - 1)
        up   == \/ BigLT(half, low)
                \/ low = half /\ (sticky \/ BigOdd(kept))
    IN  IF up THEN BigAdd(kept, <<1>>) ELSE kept

FloatZero == [m |-> <<>>, e |-> 0]

(* the float nearest to (n + f) * 2^e, where 0 <= f < 1 and f > 0 iff      *)
(* sticky; with sticky, n has more than MantissaBits bits                  *)
RoundToFloat(n, e, sticky) ==
    LET len == BigBitLen(n)
    IN  IF n = <<>> THEN FloatZero
        ELSE IF len <= MantissaBits
        THEN [m |-> BigMul(n, BigPow2(MantissaBits - len)),
              e |-> e - (MantissaBits - len)]
        ELSE LET rounded == BigRoundShift(n, len - MantissaBits, sticky)
             IN  IF BigBitLen(rounded) > MantissaBits
                 THEN [m |-> BigPow2(MantissaBits - 1),
                       e |-> e + (len - MantissaBits) + 1]
                 ELSE [m |-> rounded, e |-> e + (len - MantissaBits)]

FloatOfInt(n) == RoundToFloat(BigOf(n), 0, FALSE)

FloatMul(x, y) ==
    IF x = FloatZero \/ y = FloatZero THEN FloatZero
    ELSE RoundToFloat(BigMul(x.m, y.m), x.e + y.e, FALSE)

FloatAdd(x, y) ==
    IF x = FloatZero THEN y
    ELSE IF y = FloatZero THEN x
    ELSE IF x.e >= y.e
    THEN RoundToFloat(BigAdd(BigMul(x.m, BigPow2(x.e - y.e)), y.m), y.e, FALSE)
    ELSE RoundToFloat(BigAdd(BigMul(y.m, BigPow2(y.e - x.e)), x.m), x.e, FALSE)

(* x / y for y > 0 *)
FloatDiv(x, y) ==
    IF y = FloatZero \/ x = FloatZero THEN FloatZero
    ELSE LET qe == BigDiv(BigMul(x.m, BigPow2(MantissaBits + 3)), y.m)
         IN  RoundToFloat(qe[1], x.e - y.e - (MantissaBits + 3), ~qe[2])

FloatLE(x, y) ==
    IF y = FloatZero THEN x = FloatZero
    ELSE IF x = FloatZero THEN TRUE
    ELSE IF x.e # y.e THEN x.e < y.e
    ELSE ~BigLT(y.m, x.m)

FloatMin(x, y) == IF FloatLE(x, y) THEN x ELSE y

(* round(x, 2) in hundredths, for x below 2^20: the integer nearest to     *)
(* 100 x, ties to the even one, from the exact value of x                  *)
FloatRound2(x) ==
    IF x = FloatZero THEN 0
    ELSE IF x.e >= 0 THEN BigToInt(BigMul(BigMul(x.m, BigOf(100)), BigPow2(x.e)))
    ELSE BigToInt(BigRoundShift(BigMul(x.m, BigOf(100)), -x.e, FALSE))

----------------------------------------------------------------------------
(* float(v): numbers convert, numeric strings parse, anything else raises *)

DigitValue(c) ==
    CASE c = "0" -> 0 [] c = "1" -> 1 [] c = "2" -> 2 [] c = "3" -> 3
      [] c = "4" -> 4 [] c = "5" -> 5 [] c = "6" -> 6 [] c = "7" -> 7
      [] c = "8" -> 8 [] c = "9" -> 9 [] OTHER -> -1

RECURSIVE ParseDigits(_, _)
ParseDigits(s, acc) ==
    IF s = <<>> THEN acc
    ELSE IF acc < 0 \/ DigitValue(Head(s)) < 0 THEN -1
    ELSE ParseDigits(Tail(s), acc * 10 + DigitValue(Head(s)))

ToFloat(v) ==
    CASE v.kind = "num" -> [ok |-> TRUE, val |-> RatInt(v.num)]
      [] v.kind = "str" ->
            IF v.str # <<>> /\ ParseDigits(v.str, 0) >= 0
            THEN [ok |-> TRUE, val |-> RatInt(ParseDigits(v.str, 0))]
            ELSE [ok |-> FALSE, exc |-> "ValueError"]
      [] v.kind = "bigint" -> [ok |-> FALSE, exc |-> "OverflowError"]
      [] OTHER -> [ok |-> FALSE, exc |-> "TypeError"]

(* str(v).lower() as a sequence of characters *)

DigitChar(k) ==
    CASE k = 0 -> "0" [] k = 1 -> "1" [] k = 2 -> "2" [] k = 3 -> "3"
      [] k = 4 -> "4" [] k = 5 -> "5" [] k = 6 -> "6" [] k = 7 -> "7"
      [] k = 8 -> "8" [] OTHER -> "9"

RECURSIVE NatChars(_)
NatChars(k) ==
    IF k < 10 THEN <<DigitChar(k)>> ELSE NatChars(k \div 10) \o <<DigitChar(k % 10)>>

IntChars(k) == IF k < 0 THEN <<"-">> \o NatChars(-k) ELSE NatChars(k)

LowerChar(c) ==
    CASE c = "A" -> "a" [] c = "B" -> "b" [] c = "C" -> "c" [] OTHER -> c

LowerChars(s) == [i \in 1..Len(s) |-> LowerChar(s[i])]

RECURSIVE JoinItems(_)
ScalarChars(v) ==
    CASE v.kind = "num" -> IntChars(v.num)
      [] v.kind = "str" -> v.str
      [] v.kind = "bigint" -> [i \in 1..401 |-> IF i = 1 THEN "1" ELSE "0"]
      [] OTHER -> <<"N", "o", "n", "e">>

JoinItems(l) ==
    IF l = <<>> THEN <<>>
    ELSE IF Len(l) = 1
         THEN (IF Head(l).kind = "str"
               THEN <<"'">> \o Head(l).str \o <<"'">> ELSE ScalarChars(Head(l)))
    ELSE (IF Head(l).kind = "str"
          THEN <<"'">> \o Head(l).str \o <<"'">> ELSE ScalarChars(Head(l)))
         \o <<",", " ">> \o JoinItems(Tail(l))

StrOf(v) ==
    IF v.kind = "list" THEN <<"[">> \o JoinItems(v.list) \o <<"]">>
    ELSE ScalarChars(v)

IsSubstring(needle, hay) ==
    \E i \in 0..(Len(hay) - Len(needle)) :
        \A j \in 1..Len(needle) : hay[i + j] = needle[j]

----------------------------------------------------------------------------
(* EligibilityEngine._apply_operator *)

Operators ==
    {"EQ", "NE", "GT", "GTE", "LT", "LTE", "IN", "NOT_IN", "CONTAINS", "BETWEEN"}

NumericOperators == {"GT", "GTE", "LT", "LTE"}

(* a slip: only the first item of the list compared *)
InListHead(v, l) == l # <<>> /\ l[1] = v

InList(v, l) == \E i \in 1..Len(l) : l[i] = v

(* the try block: the comparison itself, ValueError/TypeError giving False *)
CompareValues(actual, expected, operator) ==
    LET a == ToFloat(actual)
        e == ToFloat(expected)
    IN  CASE operator = "EQ" -> actual = expected
          [] operator = "NE" -> actual # expected
          [] operator = "GT" -> a.ok /\ e.ok /\ RatLT(e.val, a.val)
          [] operator = "GTE" -> a.ok /\ e.ok /\ RatLE(e.val, a.val)
          [] operator = "LT" -> a.ok /\ e.ok /\ RatLT(a.val, e.val)
          [] operator = "LTE" -> a.ok /\ e.ok /\ RatLE(a.val, e.val)
          [] operator = "IN" ->
                IF expected.kind = "list" THEN InList(actual, expected.list) ELSE FALSE
          [] operator = "NOT_IN" ->
                IF expected.kind = "list" THEN ~InList(actual, expected.list) ELSE TRUE
          [] operator = "CONTAINS" ->
                IsSubstring(LowerChars(StrOf(expected)), LowerChars(StrOf(actual)))
          [] operator = "BETWEEN" ->
                IF expected.kind = "list" /\ Len(expected.list) = 2
                THEN LET lo == ToFloat(expected.list[1])
                         hi == ToFloat(expected.list[2])
                     IN  lo.ok /\ a.ok /\ RatLE(lo.val, a.val)
                         /\ hi.ok /\ RatLE(a.val, hi.val)
                ELSE FALSE
          [] OTHER -> FALSE

(* a slip: the "actual is None" guard left out *)
ApplyOperatorUnguarded(actual, expected, operator) ==
    CompareValues(actual, expected, operator)

ApplyOperator(actual, expected, operator) ==
    IF actual = NoneVal THEN FALSE
    ELSE CompareValues(actual, expected, operator)

(* "except (ValueError, TypeError)": the exceptions the try block absorbs *)
CaughtExceptions == {"ValueError", "TypeError"}

Escapes(f) == ~f.ok /\ f.exc \notin CaughtExceptions

(* The try block raises something the except clause does not catch: the    *)
(* float() calls are made left to right and the first failure ends them.   *)
CompareEscapes(actual, expected, operator) ==
    LET a == ToFloat(actual)
        e == ToFloat(expected)
    IN  IF operator \in {"GT", "GTE", "LT", "LTE"}
        THEN Escapes(a) \/ (a.ok /\ Escapes(e))
        ELSE IF operator = "BETWEEN" /\ expected.kind = "list" /\ Len(expected.list) = 2
        THEN LET lo == ToFloat(expected.list[1])
                 hi == ToFloat(expected.list[2])
             IN  \/ Escapes(lo)
                 \/ lo.ok /\ Escapes(a)
                 \/ lo.ok /\ a.ok /\ RatLE(lo.val, a.val) /\ Escapes(hi)
        ELSE FALSE

(* what a call of _apply_operator ends in: a boolean or an exception *)
ApplyOperatorOutcome(actual, expected, operator) ==
    IF actual # NoneVal /\ CompareEscapes(actual, expected, operator)
    THEN [raised |-> TRUE, exc |-> "OverflowError"]
    ELSE [raised |-> FALSE, value |-> ApplyOperator(actual, expected, operator)]

----------------------------------------------------------------------------
(* EligibilityEngine._calculate_gradual_score.  The result is either a     *)
(* returned score or the exception that leaves the function: only          *)
(* ValueError and TypeError are caught there.                              *)

Returned(score) == [raised |-> FALSE, score |-> score]

Raised(exc) == [raised |-> TRUE, exc |-> exc]

(* a slip: the score grows with the ratio instead of falling *)
LowerIsBetterRising(a, e) ==
    IF RatLE(a, e) THEN Returned(RatInt(100))
    ELSE IF e.n = 0 THEN Raised("ZeroDivisionError")
    ELSE LET ratio == RatMin(RatInt(2), RatDiv(a, e))
         IN  Returned(RatMax(RatInt(0),
                             RatMul(RatInt(100), RatSub(ratio, RatInt(1)))))

(* operator in ['LTE', 'LT'] *)
LowerIsBetter(a, e) ==
    IF RatLE(a, e) THEN Returned(RatInt(100))
    ELSE IF e.n = 0 THEN Raised("ZeroDivisionError")
    ELSE LET ratio == RatMin(RatInt(2), RatDiv(a, e))
         IN  Returned(RatMax(RatInt(0),
                             RatMul(RatInt(100), RatSub(RatInt(2), ratio))))

(* a slip: the ratio taken from zero instead of from half the threshold *)
HigherIsBetterFromZero(a, e) ==
    IF RatLE(e, a) THEN Returned(RatInt(100))
    ELSE LET min_threshold == RatMul(e, Rat(1, 2))
         IN  IF RatLE(a, min_threshold) THEN Returned(RatInt(0))
             ELSE IF e.n = 0 THEN Raised("ZeroDivisionError")
             ELSE Returned(RatMul(RatDiv(a, e), RatInt(100)))

(* operator in ['GTE', 'GT'] *)
HigherIsBetter(a, e) ==
    IF RatLE(e, a) THEN Returned(RatInt(100))
    ELSE LET min_threshold == RatMul(e, Rat(1, 2))
         IN  IF RatLE(a, min_threshold) THEN Returned(RatInt(0))
             ELSE IF RatSub(e, min_threshold).n = 0
             THEN Raised("ZeroDivisionError")
             ELSE Returned(RatMul(RatDiv(RatSub(a, min_threshold),
                                         RatSub(e, min_threshold)),
                                  RatInt(100)))

(* a slip: the branches of the two directions exchanged *)
CalculateGradualScoreSwapped(actual, expected, operator) ==
    LET a == ToFloat(actual)
        e == ToFloat(expected)
    IN  IF Escapes(a) \/ (a.ok /\ Escapes(e)) THEN Raised("OverflowError")
        ELSE IF ~a.ok \/ ~e.ok THEN Returned(RatInt(0))
        ELSE IF operator \in {"LTE", "LT"} THEN HigherIsBetter(a.val, e.val)
        ELSE IF operator \in {"GTE", "GT"} THEN LowerIsBetter(a.val, e.val)
        ELSE Returned(IF ApplyOperator(actual, expected, operator)
                      THEN RatInt(100) ELSE RatInt(0))

CalculateGradualScore(actual, expected, operator) ==
    LET a == ToFloat(actual)
        e == ToFloat(expected)
    IN  IF Escapes(a) \/ (a.ok /\ Escapes(e)) THEN Raised("OverflowError")
        ELSE IF ~a.ok \/ ~e.ok THEN Returned(RatInt(0))
        ELSE IF operator \in {"LTE", "LT"} THEN LowerIsBetter(a.val, e.val)
        ELSE IF operator \in {"GTE", "GT"} THEN HigherIsBetter(a.val, e.val)
        ELSE Returned(IF ApplyOperator(actual, expected, operator)
                      THEN RatInt(100) ELSE RatInt(0))

----------------------------------------------------------------------------
(* EligibilityEngine._get_context_value is called by _evaluate_single_rule *)
(* but defined nowhere in the sources at hand; it follows the description  *)
(* of the rule evaluation pass: look the field name up in the context map, *)
(* an unknown field resolving to None.                                     *)

GetContextValue(field_name, ctx) ==
    IF field_name \in DOMAIN ctx THEN ctx[field_name] ELSE NoneVal

(* EligibilityEngine._evaluate_single_rule *)

EvaluateSingleRule(rule, ctx) ==
    LET actual_value == GetContextValue(rule.field_name, ctx)
        expected_value == rule.expected_value
        operator == rule.operator
        applied == ApplyOperatorOutcome(actual_value, expected_value, operator)
        passed == applied.value
        details == [actual_value |-> actual_value,
                    expected_value |-> expected_value,
                    operator |-> operator]
    IN  IF applied.raised THEN Raised(applied.exc)
        ELSE IF operator \in NumericOperators /\ actual_value # NoneVal
        THEN LET g == CalculateGradualScore(actual_value, expected_value, operator)
             IN  IF g.raised THEN g
                 ELSE [raised |-> FALSE, passed |-> passed, score |-> g.score,
                       details |-> details]
        ELSE [raised |-> FALSE, passed |-> passed,
              score |-> IF passed THEN RatInt(100) ELSE RatInt(0),
              details |-> details]

----------------------------------------------------------------------------
(* EligibilityEngine._evaluate_rules: the active rules, by priority, each  *)
(* evaluated inside try/except Exception.                                  *)

RECURSIVE FilterActive(_)
FilterActive(rules) ==
    IF rules = <<>> THEN <<>>
    ELSE IF Head(rules).is_active
         THEN <<Head(rules)>> \o FilterActive(Tail(rules))
         ELSE FilterActive(Tail(rules))

RECURSIVE InsertByPriority(_, _)
InsertByPriority(rule, sorted) ==
    IF sorted = <<>> THEN <<rule>>
    ELSE IF rule.priority < Head(sorted).priority
         THEN <<rule>> \o sorted
         ELSE <<Head(sorted)>> \o InsertByPriority(rule, Tail(sorted))

RECURSIVE OrderByPriority(_)
OrderByPriority(rules) ==
    IF rules = <<>> THEN <<>>
    ELSE InsertByPriority(rules[Len(rules)],
                          OrderByPriority(SubSeq(rules, 1, Len(rules) - 1)))

(* float(rule.weight): weight is a Decimal with two places, kept in hundredths *)
WeightScale == 100

RuleResultEntry(rule, ctx) ==
    LET result == EvaluateSingleRule(rule, ctx)
    IN  IF result.raised
        THEN [rule_id |-> rule.id,
              rule_name |-> rule.rule_name,
              passed |-> FALSE,
              score |-> RatInt(0),
              error |-> result.exc]
        ELSE [rule_id |-> rule.id,
              rule_name |-> rule.rule_name,
              rule_type |-> rule.rule_type,
              is_mandatory |-> rule.is_mandatory,
              weight |-> Rat(rule.weight, WeightScale),
              passed |-> result.passed,
              score |-> result.score,
              details |-> result.details]

(* a slip: no try/except around a rule, the first exception ends the pass *)
EvaluateRulesAborting(rules, ctx) ==
    LET ordered == OrderByPriority(FilterActive(rules))
        raising == {i \in 1..Len(ordered) : EvaluateSingleRule(ordered[i], ctx).raised}
        last    == IF raising = {} THEN Len(ordered)
                   ELSE (CHOOSE i \in raising : \A j \in raising : i <= j) - 1
    IN  [i \in 1..last |-> RuleResultEntry(ordered[i], ctx)]

EvaluateRulesOf(rules, ctx) ==
    LET ordered == OrderByPriority(FilterActive(rules))
    IN  [i \in 1..Len(ordered) |-> RuleResultEntry(ordered[i], ctx)]

----------------------------------------------------------------------------
(* SocialProgram.is_budget_available *)

(* a slip: a budget spent to the last unit still counted as available *)
IsBudgetAvailableInclusive(allocated, total) == allocated <= total

IsBudgetAvailable(allocated, total) == allocated < total

(* EligibilityEngine._calculate_final_eligibility; result.get(key, default) *)
(* reads the default when the entry has no such key.                       *)

GetScore(result) == IF "score" \in DOMAIN result THEN result.score ELSE RatInt(0)

GetWeight(result) == IF "weight" \in DOMAIN result THEN result.weight ELSE RatInt(1)

GetIsMandatory(result) ==
    IF "is_mandatory" \in DOMAIN result THEN result.is_mandatory ELSE TRUE

GetPassed(result) == IF "passed" \in DOMAIN result THEN result.passed ELSE FALSE

(* a slip: the negation of "passed" left out *)
RECURSIVE FailedMandatoryOfPassed(_)
FailedMandatoryOfPassed(results) ==
    IF results = <<>> THEN <<>>
    ELSE (IF GetIsMandatory(Head(results)) /\ GetPassed(Head(results))
          THEN <<Head(results).rule_name>> ELSE <<>>)
         \o FailedMandatoryOfPassed(Tail(results))

RECURSIVE FailedMandatory(_)
FailedMandatory(results) ==
    IF results = <<>> THEN <<>>
    ELSE (IF GetIsMandatory(Head(results)) /\ ~GetPassed(Head(results))
          THEN <<Head(results).rule_name>> ELSE <<>>)
         \o FailedMandatory(Tail(results))

RECURSIVE TotalScore(_)
TotalScore(results) ==
    IF results = <<>> THEN RatInt(0)
    ELSE RatAdd(TotalScore(SubSeq(results, 1, Len(results) - 1)),
                RatMul(GetScore(results[Len(results)]),
                       GetWeight(results[Len(results)])))

RECURSIVE TotalWeight(_)
TotalWeight(results) ==
    IF results = <<>> THEN RatInt(0)
    ELSE RatAdd(TotalWeight(SubSeq(results, 1, Len(results) - 1)),
                GetWeight(results[Len(results)]))

(* a slip: the plain mean of the scores, the weights left out *)
CompositeScoreUnweighted(results) ==
    IF RatLT(RatInt(0), TotalWeight(results))
    THEN RatDiv(TotalScore([i \in DOMAIN results |->
                               [score |-> GetScore(results[i]), weight |-> RatInt(1)]]),
                RatInt(Len(results)))
    ELSE RatInt(0)

CompositeScore(results) ==
    IF RatLT(RatInt(0), TotalWeight(results))
    THEN RatDiv(TotalScore(results), TotalWeight(results))
    ELSE RatInt(0)

MinimumScore == 60

(* a slip: the confidence without its cap of 100 *)
ConfidenceUncapped(results) ==
    RatAdd(RatMul(CompositeScore(results), Rat(8, 10)),
           RatInt(Len(results) * 2))

Confidence(results) ==
    RatMin(RatInt(100),
           RatAdd(RatMul(CompositeScore(results), Rat(8, 10)),
                  RatInt(Len(results) * 2)))

CalculateFinalEligibilityOf(allocated, total, results) ==
    LET failed_mandatory == FailedMandatory(results)
        composite_score == CompositeScore(results)
    IN  [is_eligible |-> /\ Len(failed_mandatory) = 0
                         /\ RatLE(RatInt(MinimumScore), composite_score)
                         /\ IsBudgetAvailable(allocated, total),
         score |-> Round2(composite_score),
         confidence |-> Round2(Confidence(results)),
         failed_mandatory |-> failed_mandatory,
         total_rules_evaluated |-> Len(results)]

----------------------------------------------------------------------------
(* EligibilityEngine._calculate_final_eligibility in the arithmetic of the *)
(* interpreter: total_score, total_weight, composite_score and confidence  *)
(* are binary64 floats, each operation rounded to the nearest float.       *)

(* float(x) of an exact non-negative rational *)
FloatOfRat(r) == FloatDiv(FloatOfInt(r.n), FloatOfInt(r.d))

RECURSIVE TotalScoreFloat(_)
TotalScoreFloat(results) ==
    IF results = <<>> THEN FloatZero
    ELSE FloatAdd(TotalScoreFloat(SubSeq(results, 1, Len(results) - 1)),
                  FloatMul(FloatOfRat(GetScore(results[Len(results)])),
                           FloatOfRat(GetWeight(results[Len(results)]))))

RECURSIVE TotalWeightFloat(_)
TotalWeightFloat(results) ==
    IF results = <<>> THEN FloatZero
    ELSE FloatAdd(TotalWeightFloat(SubSeq(results, 1, Len(results) - 1)),
                  FloatOfRat(GetWeight(results[Len(results)])))

CompositeScoreFloat(results) ==
    IF TotalWeightFloat(results) # FloatZero
    THEN FloatDiv(TotalScoreFloat(results), TotalWeightFloat(results))
    ELSE FloatZero

ConfidenceFloat(results) ==
    FloatMin(FloatOfInt(100),
             FloatAdd(FloatMul(CompositeScoreFloat(results), FloatOfRat(Rat(8, 10))),
                      FloatMul(FloatOfInt(Len(results)), FloatOfInt(2))))

CalculateFinalEligibilityFloat(allocated, total, results) ==
    LET failed_mandatory == FailedMandatory(results)
        composite_score == CompositeScoreFloat(results)
    IN  [is_eligible |-> /\ Len(failed_mandatory) = 0
                         /\ FloatLE(FloatOfInt(MinimumScore), composite_score)
                         /\ IsBudgetAvailable(allocated, total),
         score |-> FloatRound2(composite_score),
         confidence |-> FloatRound2(ConfidenceFloat(results)),
         failed_mandatory |-> failed_mandatory,
         total_rules_evaluated |-> Len(results)]

----------------------------------------------------------------------------
(* The state machine: a program with its rules and budget, an evaluation   *)
(* context, and the two steps of evaluate_person_eligibility that compute  *)
(* the decision (steps 4 and 5).                                           *)

RuleName(i) == <<"r">> \o NatChars(i)

Weights == {100, 150}

MakeRule(i, template, weight, mandatory, active) ==
    [id |-> i,
     rule_name |-> RuleName(i),
     rule_type |-> template.rule_type,
     field_name |-> template.field_name,
     operator |-> template.operator,
     expected_value |-> template.expected_value,
     weight |-> weight,
     priority |-> i,
     is_mandatory |-> mandatory,
     is_active |-> active]

NoResult == [status |-> "none"]

(* Rules of a deployed program: an age floor and income ceilings *)
RuleCatalogue ==
    {[rule_type |-> "DEMOGRAPHIC", field_name |-> "age",
      operator |-> "GTE", expected_value |-> Num(4)],
     [rule_type |-> "INCOME", field_name |-> "monthly_income",
      operator |-> "LTE", expected_value |-> Num(2)],
     [rule_type |-> "INCOME", field_name |-> "monthly_income",
      operator |-> "LTE", expected_value |-> Num(0)],
     [rule_type |-> "INCOME", field_name |-> "monthly_income",
      operator |-> "LT", expected_value |-> Num(-2)]}

AgeValues == {NoneVal, Num(3), Num(5)}

IncomeValues == {Num(1), Num(3), Num(5)}

(* An inactive rule is never read beyond its is_active flag, so one         *)
(* inactive rule stands for all of them.                                   *)
InactiveChoice ==
    <<[rule_type |-> "DEMOGRAPHIC", field_name |-> "age",
       operator |-> "GTE", expected_value |-> Num(4)], 100, TRUE, FALSE>>

RuleChoices == (RuleCatalogue \X Weights \X BOOLEAN \X {TRUE}) \cup {InactiveChoice}

(* no call of the engine entry point is running, nothing stored *)
EngineIdle ==
    /\ calls = <<>>
    /\ cache = <<>>
    /\ evaluations = <<>>
    /\ decisions = <<>>

(* no voucher issued *)
VoucherIdle ==
    /\ voucher = NoneVal
    /\ voucher_result = NoneVal

(* no program open for enrollment *)
EnrollmentIdle ==
    /\ program = NoneVal
    /\ enrollments = <<>>
    /\ enroll_calls = <<>>

(* no payment ordered *)
PaymentIdle ==
    /\ payments = <<>>
    /\ tasks = <<>>

(* the apps.programs services are not in use *)
ProgramsIdle == VoucherIdle /\ EnrollmentIdle /\ PaymentIdle

(* no level: the overall score has not been classified *)
NoLevel == "none"

(* the vulnerability calculator has not been called *)
VulnerabilityIdle ==
    /\ person = NoneVal
    /\ context_data = NoneVal
    /\ overall_score = NoneVal
    /\ vulnerability_level = NoLevel
    /\ vulnerability_score = NoneVal
    /\ vulnerability_scores = <<>>

Init ==
    /\ \E n \in 0..MaxRules :
        \E choice \in [1..n -> RuleChoices] :
            eligibility_rules =
                [i \in 1..n |-> MakeRule(i, choice[i][1], choice[i][2],
                                         choice[i][3], choice[i][4])]
    /\ total_budget = MaxBudget
    /\ allocated_budget \in 0..MaxBudget
    /\ \E age \in AgeValues, income \in IncomeValues :
        context = [age |-> age, monthly_income |-> income]
    /\ rule_results = <<>>
    /\ eligibility_result = NoResult
    /\ pc = "start"
    /\ EngineIdle
    /\ ProgramsIdle
    /\ VulnerabilityIdle

(* step 4: rule_results = self._evaluate_rules(program, context, ...) *)
EvaluateRules ==
    /\ pc = "start"
    /\ rule_results' = EvaluateRulesOf(eligibility_rules, context)
    /\ pc' = "rules_evaluated"
    /\ UNCHANGED <<eligibility_rules, allocated_budget, total_budget, context,
                   eligibility_result, engineVars, vulnerabilityVars, programVars>>

(* step 5: eligibility_result = self._calculate_final_eligibility(program, rule_results) *)
CalculateFinalEligibility ==
    /\ pc = "rules_evaluated"
    /\ eligibility_result' =
           CalculateFinalEligibilityOf(allocated_budget, total_budget, rule_results)
    /\ pc' = "done"
    /\ UNCHANGED <<eligibility_rules, allocated_budget, total_budget, context,
                   rule_results, engineVars, vulnerabilityVars, programVars>>

Next == EvaluateRules \/ CalculateFinalEligibility

Spec == Init /\ [][Next]_vars

----------------------------------------------------------------------------
(* A program with a single active rule over one context field, the rule's  *)
(* operator, expected value and the actual value ranging over every kind   *)
(* of JSON value.                                                          *)

ExpectedValues ==
    {Num(n) : n \in (-MaxExpected)..MaxExpected}
    \cup {NoneVal, Str(<<"a", "b", "c">>), Str(<<"4">>),
          List(<<Num(1), Num(3)>>), List(<<Num(2)>>), BigInt}

ActualValues ==
    {Num(n) : n \in (-MaxExpected - 1)..(2 * MaxExpected + 1)}
    \cup {NoneVal, Str(<<"A", "b", "c">>), Str(<<"3">>), List(<<Num(2)>>), BigInt}

InitRule ==
    /\ \E operator \in Operators, expected \in ExpectedValues,
          weight \in Weights, mandatory \in BOOLEAN :
        eligibility_rules =
            <<MakeRule(1, [rule_type |-> "INCOME", field_name |-> "value",
                           operator |-> operator, expected_value |-> expected],
                       weight, mandatory, TRUE)>>
    /\ total_budget = MaxBudget
    /\ allocated_budget \in 0..MaxBudget
    /\ \E actual \in ActualValues : context = [value |-> actual]
    /\ rule_results = <<>>
    /\ eligibility_result = NoResult
    /\ pc = "start"
    /\ EngineIdle
    /\ ProgramsIdle
    /\ VulnerabilityIdle

SpecRule == InitRule /\ [][Next]_vars

----------------------------------------------------------------------------
(* evaluate_person_eligibility as a whole: cache, evaluation, the insert   *)
(* into eligibility_evaluations under its unique constraint, cache.set.    *)
(* Two calls may run at once; one program, the pair (person, program)      *)
(* varies in the person.                                                   *)

Persons == {"p1", "p2"}

Calls == {"a", "b"}

NoEvaluation == [status |-> "none"]

IdleCall == [pc |-> "idle"]

EngineContexts == {[age |-> Num(age), monthly_income |-> Num(1)] : age \in {3, 5}}

(* a slip: the table without its constraint *)
NoConstraint(rows) == TRUE

(* constraints: UniqueConstraint(fields=[person, program],                 *)
(*              condition=Q(is_eligible=True))                             *)
UniqueEligiblePerProgram(rows) ==
    \A i, j \in DOMAIN rows :
        (/\ rows[i].person = rows[j].person
         /\ rows[i].is_eligible
         /\ rows[j].is_eligible) => i = j

InitEngine ==
    /\ \E template \in RuleCatalogue, mandatory \in BOOLEAN :
        eligibility_rules = <<MakeRule(1, template, 100, mandatory, TRUE)>>
    /\ total_budget = MaxBudget
    /\ allocated_budget \in 0..MaxBudget
    /\ context = [age |-> NoneVal, monthly_income |-> NoneVal]
    /\ rule_results = <<>>
    /\ eligibility_result = NoResult
    /\ pc = "engine"
    /\ calls = [c \in Calls |-> IdleCall]
    /\ cache = [p \in Persons |-> NoEvaluation]
    /\ evaluations = <<>>
    /\ decisions = <<>>
    /\ VulnerabilityIdle
    /\ ProgramsIdle

pipelineVars == <<eligibility_rules, allocated_budget, total_budget, context,
                  rule_results, eligibility_result, pc>>

(* a slip: a cache key without the person id, the program's entry serves  *)
(* every person                                                            *)
CacheGetAnyPerson(store, p) ==
    IF \E q \in DOMAIN store : store[q] # NoEvaluation
    THEN store[CHOOSE q \in DOMAIN store : store[q] # NoEvaluation]
    ELSE NoEvaluation

(* cache.get(f"eligibility:{person.id}:{program.id}"), for the one program *)
CacheGet(store, p) == store[p]

(* steps 1-6: cache.get, then context, rules and final eligibility *)
BeginEvaluation(c, p, ctx) ==
    /\ calls[c].pc \in {"idle", "returned", "raised"}
    /\ Len(evaluations) < MaxEvaluations
    /\ IF CacheGet(cache, p) # NoEvaluation
       THEN calls' = [calls EXCEPT ![c] =
                [pc |-> "returned", person |-> p, evaluation |-> CacheGet(cache, p)]]
       ELSE LET results == EvaluateRulesOf(eligibility_rules, ctx)
                final   == CalculateFinalEligibilityOf(allocated_budget,
                                                       total_budget, results)
            IN  calls' = [calls EXCEPT ![c] =
                    [pc |-> "evaluated", person |-> p,
                     evaluation |-> [person |-> p,
                                     is_eligible |-> final.is_eligible,
                                     eligibility_score |-> final.score,
                                     confidence_level |-> final.confidence,
                                     evaluation_context |-> ctx]]]
    /\ UNCHANGED <<pipelineVars, cache, evaluations, decisions, vulnerabilityVars, programVars>>

(* step 7: EligibilityEvaluation.objects.create(...); the insert fails     *)
(* with IntegrityError when it breaks unique_eligible_per_program          *)
CreateEvaluation(c) ==
    /\ calls[c].pc = "evaluated"
    /\ LET row == calls[c].evaluation
       IN  IF UniqueEligiblePerProgram(Append(evaluations, row))
           THEN /\ evaluations' = Append(evaluations, row)
                /\ calls' = [calls EXCEPT ![c].pc = "created"]
           ELSE /\ evaluations' = evaluations
                /\ calls' = [calls EXCEPT ![c] =
                        [pc |-> "raised", person |-> calls[c].person,
                         exc |-> "IntegrityError"]]
    /\ UNCHANGED <<pipelineVars, cache, decisions, vulnerabilityVars, programVars>>

(* step 8: cache.set(cache_key, evaluation, self.cache_timeout); return *)
CacheEvaluation(c) ==
    /\ calls[c].pc = "created"
    /\ cache' = [cache EXCEPT ![calls[c].person] = calls[c].evaluation]
    /\ calls' = [calls EXCEPT ![c].pc = "returned"]
    /\ UNCHANGED <<pipelineVars, evaluations, decisions, vulnerabilityVars, programVars>>

(* the entry leaves the cache after cache_timeout seconds *)
CacheExpire(p) ==
    /\ cache[p] # NoEvaluation
    /\ cache' = [cache EXCEPT ![p] = NoEvaluation]
    /\ UNCHANGED <<pipelineVars, calls, evaluations, decisions, vulnerabilityVars, programVars>>

(* the program allocates budget between two calls *)
AllocateBudget ==
    /\ allocated_budget < total_budget
    /\ allocated_budget' = allocated_budget + 1
    /\ UNCHANGED <<eligibility_rules, total_budget, context, rule_results,
                   eligibility_result, pc, engineVars, vulnerabilityVars, programVars>>

NextEngine ==
    \/ \E c \in Calls, p \in Persons, ctx \in EngineContexts :
           BeginEvaluation(c, p, ctx)
    \/ AllocateBudget
    \/ \E c \in Calls : CreateEvaluation(c)
    \/ \E c \in Calls : CacheEvaluation(c)
    \/ \E p \in Persons : CacheExpire(p)

SpecEngine == InitEngine /\ [][NextEngine]_vars

----------------------------------------------------------------------------
(* VulnerabilityCalculator: five dimension scores, the weighted overall    *)
(* score, its level and the contributing factors.  The additive points are *)
(* whole numbers; the weighted sum is an exact rational.  A text field     *)
(* that is None or empty is the empty string: the code only tests such a   *)
(* field for truth, equality and membership.                               *)

PovertyLine == 75000   \* poverty_line, FCFA per month

DimensionWeights ==
    [demographic |-> Rat(25, 100),
     economic    |-> Rat(35, 100),
     social      |-> Rat(20, 100),
     health      |-> Rat(15, 100),
     geographic  |-> Rat(5, 100)]

(* the dimensions in the order the scores dictionary is built *)
Dimensions == <<"demographic", "economic", "social", "health", "geographic">>

RuralDivisions == {"RURAL_1", "RURAL_2"}

CalculateAge(p) == p.age

IsHouseholdHead(p) == p.household_head

GetDependentsCount(p) == p.dependents_count

GetFamilySize(p) == p.family_size

Min100(score) == IF score < 100 THEN score ELSE 100

DemographicPoints(p) ==
    LET age == CalculateAge(p)
    IN  (IF age < 18 \/ age > 65 THEN 30
         ELSE IF age < 25 \/ age > 55 THEN 15 ELSE 0)
      + (IF p.gender = "F" THEN 10 ELSE 0)
      + (IF p.gender = "F" /\ IsHouseholdHead(p) THEN 20 ELSE 0)
      + (IF p.marital_status \in {"DIVORCED", "WIDOWED"} THEN 15 ELSE 0)

CalculateDemographicScore(p) == Min100(DemographicPoints(p))

EconomicPoints(p, ctx) ==
    LET dependents == GetDependentsCount(p)
    IN  (IF ctx # NoneVal
         THEN (IF ctx.monthly_income # NoneVal
               THEN (IF ctx.monthly_income.num <= PovertyLine THEN 60
                     ELSE IF 2 * ctx.monthly_income.num <= 3 * PovertyLine THEN 40
                     ELSE IF ctx.monthly_income.num <= PovertyLine * 2 THEN 20 ELSE 0)
               ELSE 0)
            + (IF ctx.employment_status \in {"UNEMPLOYED", "INFORMAL"} THEN 30
               ELSE IF ctx.employment_status = "PART_TIME" THEN 15 ELSE 0)
            + (IF ctx.housing_type \in {"PRECARIOUS", "HOMELESS"} THEN 40
               ELSE IF ctx.housing_type = "RENTAL" THEN 10 ELSE 0)
         ELSE 0)
      + (IF dependents > 3 THEN 25 ELSE IF dependents > 0 THEN 10 ELSE 0)

(* a slip: the economic points returned without min(100.0, score) *)
CalculateEconomicScoreUnclamped(p, ctx) == EconomicPoints(p, ctx)

CalculateEconomicScore(p, ctx) == Min100(EconomicPoints(p, ctx))

SocialPoints(p, ctx) ==
    LET family_size == GetFamilySize(p)
    IN  (IF family_size <= 1 THEN 30 ELSE IF family_size <= 2 THEN 15 ELSE 0)
      + (IF ctx # NoneVal /\ ctx.education_level # ""
         THEN (IF ctx.education_level \in {"NONE", "PRIMARY_INCOMPLETE"} THEN 25
               ELSE IF ctx.education_level = "PRIMARY_COMPLETE" THEN 10 ELSE 0)
         ELSE 0)

CalculateSocialScore(p, ctx) == Min100(SocialPoints(p, ctx))

(* a slip: the upper age band opened at 70 instead of above 70 *)
HealthPointsFromSeventy(p, ctx) ==
    LET age == CalculateAge(p)
    IN  (IF ctx # NoneVal
         THEN (IF ctx.health_status = "POOR" THEN 50
               ELSE IF ctx.health_status = "FAIR" THEN 25 ELSE 0)
            + (IF ctx.has_disability = TRUE THEN 30 ELSE 0)
            + (IF ctx.chronic_illness = TRUE THEN 20 ELSE 0)
         ELSE 0)
      + (IF age >= 70 THEN 15 ELSE IF age > 60 THEN 10 ELSE 0)

HealthPoints(p, ctx) ==
    LET age == CalculateAge(p)
    IN  (IF ctx # NoneVal
         THEN (IF ctx.health_status = "POOR" THEN 50
               ELSE IF ctx.health_status = "FAIR" THEN 25 ELSE 0)
            + (IF ctx.has_disability = TRUE THEN 30 ELSE 0)
            + (IF ctx.chronic_illness = TRUE THEN 20 ELSE 0)
         ELSE 0)
      + (IF age > 70 THEN 15 ELSE IF age > 60 THEN 10 ELSE 0)

CalculateHealthScore(p, ctx) == Min100(HealthPoints(p, ctx))

GeographicPoints(p) ==
    IF p.administrative_division # ""
       /\ p.administrative_division \in RuralDivisions
    THEN 30 ELSE 0

CalculateGeographicScore(p) == Min100(GeographicPoints(p))

DimensionScores(p, ctx) ==
    [demographic |-> CalculateDemographicScore(p),
     economic    |-> CalculateEconomicScore(p, ctx),
     social      |-> CalculateSocialScore(p, ctx),
     health      |-> CalculateHealthScore(p, ctx),
     geographic  |-> CalculateGeographicScore(p)]

Contribution(dimension, scores) ==
    RatMul(RatInt(scores[dimension]), DimensionWeights[dimension])

OverallScore(scores) ==
    RatAdd(RatAdd(RatAdd(RatAdd(Contribution("demographic", scores),
                                Contribution("economic", scores)),
                         Contribution("social", scores)),
                  Contribution("health", scores)),
           Contribution("geographic", scores))

(* a slip: the lower bounds of the levels taken as exclusive *)
ClassifyVulnerabilityLevelExclusive(score) ==
    IF RatLT(RatInt(80), score) THEN "CRITICAL"
    ELSE IF RatLT(RatInt(60), score) THEN "HIGH"
    ELSE IF RatLT(RatInt(40), score) THEN "MODERATE"
    ELSE "LOW"

ClassifyVulnerabilityLevel(score) ==
    IF RatLE(RatInt(80), score) THEN "CRITICAL"
    ELSE IF RatLE(RatInt(60), score) THEN "HIGH"
    ELSE IF RatLE(RatInt(40), score) THEN "MODERATE"
    ELSE "LOW"

Factor(dimension, scores) ==
    [dimension    |-> dimension,
     score        |-> scores[dimension],
     weight       |-> DimensionWeights[dimension],
     contribution |-> Contribution(dimension, scores)]

(* factors.sort(key=contribution, reverse=True): stable, so a factor goes  *)
(* behind the factors of equal contribution that came before it            *)
RECURSIVE InsertByContribution(_, _)
InsertByContribution(factor, sorted) ==
    IF sorted = <<>> THEN <<factor>>
    ELSE IF RatLT(Head(sorted).contribution, factor.contribution)
         THEN <<factor>> \o sorted
         ELSE <<Head(sorted)>> \o InsertByContribution(factor, Tail(sorted))

RECURSIVE SortByContribution(_)
SortByContribution(factors) ==
    IF factors = <<>> THEN <<>>
    ELSE InsertByContribution(factors[Len(factors)],
                              SortByContribution(SubSeq(factors, 1, Len(factors) - 1)))

(* a slip: the significance threshold taken as exclusive *)
IdentifyContributingFactorsAbove(scores) ==
    LET significant == SelectSeq(Dimensions, LAMBDA d : scores[d] > 50)
    IN  SortByContribution([i \in 1..Len(significant) |-> Factor(significant[i], scores)])

IdentifyContributingFactors(scores) ==
    LET significant == SelectSeq(Dimensions, LAMBDA d : scores[d] >= 50)
    IN  SortByContribution([i \in 1..Len(significant) |-> Factor(significant[i], scores)])

(* the defaults handed to VulnerabilityScore.objects.update_or_create;     *)
(* rounded scores are in hundredths                                        *)
VulnerabilityScoreRow(p, ctx) ==
    LET scores == DimensionScores(p, ctx)
    IN  [person               |-> p.id,
         overall_score        |-> Round2(OverallScore(scores)),
         demographic_score    |-> Round2(RatInt(scores.demographic)),
         economic_score       |-> Round2(RatInt(scores.economic)),
         social_score         |-> Round2(RatInt(scores.social)),
         health_score         |-> Round2(RatInt(scores.health)),
         geographic_score     |-> Round2(RatInt(scores.geographic)),
         contributing_factors |-> IdentifyContributingFactors(scores),
         calculation_version  |-> "1.0",
         confidence_level     |-> 8500,
         vulnerability_level  |-> ClassifyVulnerabilityLevel(OverallScore(scores))]

(* a slip: objects.create in place of update_or_create, on a table that  *)
(* lets a person have several rows                                       *)
AlwaysCreate(rows, row) == Append(rows, row)

(* VulnerabilityScore.objects.update_or_create(person=person, defaults=...): *)
(* the person's row takes the defaults, or a row is created when there is  *)
(* none; person is a OneToOneField, so the table holds no second row       *)
UpdateOrCreate(rows, row) ==
    LET matching == {i \in DOMAIN rows : rows[i].person = row.person}
    IN  IF matching = {} THEN Append(rows, row)
        ELSE [i \in DOMAIN rows |-> IF i \in matching THEN row ELSE rows[i]]

PersonValues ==
    [id : {"p1"},
     age : {17, 40, 70, 71},
     gender : {"F", "M"},
     household_head : BOOLEAN,
     marital_status : {"MARRIED", "DIVORCED"},
     dependents_count : {0, 2, 4},
     family_size : {1, 2, 4},
     administrative_division : {"RURAL_1", "URBAN_1"}]

ContextDataValues ==
    {NoneVal} \cup
    [monthly_income : {Num(0), Num(100000), Num(200000)},
     employment_status : {"UNEMPLOYED", "FORMAL"},
     housing_type : {"HOMELESS", "OWNED"},
     education_level : {"NONE", "SECONDARY"},
     health_status : {"POOR", "FAIR", "GOOD"},
     has_disability : BOOLEAN,
     chronic_illness : BOOLEAN]

(* the rule pipeline and the engine entry point are not running *)
PipelineIdle ==
    /\ eligibility_rules = <<>>
    /\ total_budget = MaxBudget
    /\ allocated_budget = 0
    /\ context = [age |-> NoneVal, monthly_income |-> NoneVal]
    /\ rule_results = <<>>
    /\ eligibility_result = NoResult
    /\ pc = "idle"

InitVulnerability ==
    /\ PipelineIdle
    /\ EngineIdle
    /\ ProgramsIdle
    /\ person \in PersonValues
    /\ context_data \in ContextDataValues
    /\ overall_score = NoneVal
    /\ vulnerability_level = NoLevel
    /\ vulnerability_score = NoneVal
    /\ vulnerability_scores = <<>>

(* calculate_vulnerability_score(person, context_data) *)
CalculateVulnerabilityScore ==
    /\ person # NoneVal
    /\ overall_score' = OverallScore(DimensionScores(person, context_data))
    /\ vulnerability_level' = ClassifyVulnerabilityLevel(overall_score')
    /\ vulnerability_score' = VulnerabilityScoreRow(person, context_data)
    /\ vulnerability_scores' = UpdateOrCreate(vulnerability_scores, vulnerability_score')
    /\ UNCHANGED <<pipelineVars, engineVars, person, context_data, programVars>>

NextVulnerability == CalculateVulnerabilityScore

SpecVulnerability == InitVulnerability /\ [][NextVulnerability]_vars

(* Calls of calculate_vulnerability_score one after another, for two      *)
(* persons whose age and auxiliary data change between the calls          *)
ScorePersons ==
    [id : {"p1", "p2"},
     age : {17, 40, 71},
     gender : {"F"},
     household_head : {TRUE},
     marital_status : {"MARRIED"},
     dependents_count : {2},
     family_size : {4},
     administrative_division : {"RURAL_1"}]

ScoreContexts ==
    {NoneVal,
     [monthly_income |-> Num(0), employment_status |-> "UNEMPLOYED",
      housing_type |-> "HOMELESS", education_level |-> "NONE",
      health_status |-> "POOR", has_disability |-> TRUE,
      chronic_illness |-> TRUE]}

InitScores ==
    /\ PipelineIdle
    /\ EngineIdle
    /\ ProgramsIdle
    /\ VulnerabilityIdle

(* calculate_vulnerability_score(p, ctx), from the caller's side *)
CallCalculateVulnerabilityScore ==
    \E p \in ScorePersons, ctx \in ScoreContexts :
        /\ person' = p
        /\ context_data' = ctx
        /\ overall_score' = OverallScore(DimensionScores(p, ctx))
        /\ vulnerability_level' = ClassifyVulnerabilityLevel(overall_score')
        /\ vulnerability_score' = VulnerabilityScoreRow(p, ctx)
        /\ vulnerability_scores' = UpdateOrCreate(vulnerability_scores, vulnerability_score')
        /\ UNCHANGED <<pipelineVars, engineVars, programVars>>

NextScores == CallCalculateVulnerabilityScore

SpecScores == InitScores /\ [][NextScores]_vars

(* _classify_vulnerability_level on its own, over every score in steps of  *)
(* one hundredth                                                           *)
MaxScore == 100   \* largest overall score classified

InitLevel ==
    /\ PipelineIdle
    /\ EngineIdle
    /\ ProgramsIdle
    /\ person = NoneVal
    /\ context_data = NoneVal
    /\ \E h \in 0..(100 * MaxScore) : overall_score = Rat(h, 100)
    /\ vulnerability_level = NoLevel
    /\ vulnerability_score = NoneVal
    /\ vulnerability_scores = <<>>

ClassifyLevel ==
    /\ overall_score # NoneVal
    /\ vulnerability_level' = ClassifyVulnerabilityLevel(overall_score)
    /\ UNCHANGED <<pipelineVars, engineVars, person, context_data, overall_score,
                   vulnerability_score, vulnerability_scores, programVars>>

NextLevel == ClassifyLevel

SpecLevel == InitLevel /\ [][NextLevel]_vars

----------------------------------------------------------------------------
(* A program with an age floor of 18 and an income ceiling of 75000, the   *)
(* weights, the mandatory flags, the budget and the context varying.       *)

ScenarioWeights == {100, 200}

ScenarioAges == {Num(16), Num(18), Num(25)}

ScenarioIncomes == {Num(50000), Num(75000), Num(100000), Num(150000)}

ScenarioRules(age_weight, age_mandatory, income_weight, income_mandatory) ==
    <<MakeRule(1, [rule_type |-> "DEMOGRAPHIC", field_name |-> "age",
                   operator |-> "GTE", expected_value |-> Num(18)],
               age_weight, age_mandatory, TRUE),
      MakeRule(2, [rule_type |-> "INCOME", field_name |-> "monthly_income",
                   operator |-> "LTE", expected_value |-> Num(75000)],
               income_weight, income_mandatory, TRUE)>>

InitScenario ==
    /\ \E age_weight \in ScenarioWeights, income_weight \in ScenarioWeights,
          age_mandatory \in BOOLEAN, income_mandatory \in BOOLEAN :
        eligibility_rules = ScenarioRules(age_weight, age_mandatory,
                                          income_weight, income_mandatory)
    /\ total_budget = MaxBudget
    /\ allocated_budget \in 0..MaxBudget
    /\ \E age \in ScenarioAges, income \in ScenarioIncomes :
        context = [age |-> age, monthly_income |-> income]
    /\ rule_results = <<>>
    /\ eligibility_result = NoResult
    /\ pc = "start"
    /\ EngineIdle
    /\ ProgramsIdle
    /\ VulnerabilityIdle

SpecScenario == InitScenario /\ [][Next]_vars

----------------------------------------------------------------------------
(* Repeated runs over one rule set.  _evaluate_rules orders the rules by   *)
(* order_by('priority') alone, which replaces the ordering of the model's  *)
(* Meta, and priority defaults to 1: the database returns rules of equal   *)
(* priority in an order of its choosing.  rule_results is a dict, read in  *)
(* insertion order, and the sums are binary64 floats.                      *)

MaxRuns == 2       \* runs after which no new run starts

(* rule.weight of the rules of the program, in hundredths *)
OrderWeights == <<10, 80, 135>>

OrderAges == {Num(1), Num(5), Num(10)}

Injections(n) == {f \in [1..n -> 1..n] : \A i, j \in 1..n : f[i] = f[j] => i = j}

(* the orders order_by('priority') may return the rules in *)
OrdersByPriority(rules) ==
    {ordered \in {[i \in 1..Len(rules) |-> rules[f[i]]] : f \in Injections(Len(rules))} :
        \A i \in 1..(Len(ordered) - 1) : ordered[i].priority <= ordered[i + 1].priority}

(* the loop of _evaluate_rules over the rules as the query returned them *)
EvaluateRulesInOrder(ordered, ctx) ==
    [i \in 1..Len(ordered) |-> RuleResultEntry(ordered[i], ctx)]

(* the same rules, their priorities dealt out anew *)
PriorityPermutations(rules) ==
    {[i \in 1..Len(rules) |-> [rules[i] EXCEPT !.priority = rules[f[i]].priority]] :
        f \in Injections(Len(rules))}

InitOrder ==
    /\ \E mandatory \in BOOLEAN, distinct \in BOOLEAN :
        eligibility_rules =
            [i \in 1..Len(OrderWeights) |->
                [MakeRule(i, [rule_type |-> "DEMOGRAPHIC", field_name |-> "age",
                              operator |-> "GTE",
                              expected_value |-> Num(IF i = Len(OrderWeights) THEN 4 ELSE 10)],
                          OrderWeights[i], mandatory, TRUE)
                 EXCEPT !.priority = IF distinct THEN i ELSE 1]]
    /\ total_budget = MaxBudget
    /\ allocated_budget \in 0..MaxBudget
    /\ \E age \in OrderAges : context = [age |-> age, monthly_income |-> Num(1)]
    /\ rule_results = <<>>
    /\ eligibility_result = NoResult
    /\ pc = "start"
    /\ EngineIdle
    /\ ProgramsIdle
    /\ VulnerabilityIdle

(* step 4, the rules in one of the orders the query may return *)
EvaluateRulesInSomeOrder ==
    /\ pc = "start"
    /\ \E ordered \in OrdersByPriority(FilterActive(eligibility_rules)) :
        rule_results' = EvaluateRulesInOrder(ordered, context)
    /\ pc' = "rules_evaluated"
    /\ UNCHANGED <<eligibility_rules, allocated_budget, total_budget, context,
                   eligibility_result, engineVars, vulnerabilityVars, programVars>>

(* step 5 in float arithmetic; the decision is kept with the rules it is for *)
CalculateFinalEligibilityInFloat ==
    /\ pc = "rules_evaluated"
    /\ eligibility_result' =
           CalculateFinalEligibilityFloat(allocated_budget, total_budget, rule_results)
    /\ decisions' = Append(decisions, [rules |-> eligibility_rules,
                                       result |-> eligibility_result'])
    /\ pc' = "done"
    /\ UNCHANGED <<eligibility_rules, allocated_budget, total_budget, context,
                   rule_results, calls, cache, evaluations, vulnerabilityVars, programVars>>

(* a second call with the same rule set, context and budget *)
RunAgain ==
    /\ pc = "done"
    /\ Len(decisions) < MaxRuns
    /\ rule_results' = <<>>
    /\ eligibility_result' = NoResult
    /\ pc' = "start"
    /\ UNCHANGED <<eligibility_rules, allocated_budget, total_budget, context,
                   engineVars, vulnerabilityVars, programVars>>

(* an administrator deals the priorities of the rules out anew; then a new call *)
PermutePriorities ==
    /\ pc = "done"
    /\ Len(decisions) < MaxRuns
    /\ \E rules \in PriorityPermutations(eligibility_rules) :
        /\ rules # eligibility_rules
        /\ eligibility_rules' = rules
    /\ rule_results' = <<>>
    /\ eligibility_result' = NoResult
    /\ pc' = "start"
    /\ UNCHANGED <<allocated_budget, total_budget, context, engineVars,
                   vulnerabilityVars, programVars>>

NextOrder ==
    \/ EvaluateRulesInSomeOrder
    \/ CalculateFinalEligibilityInFloat
    \/ RunAgain
    \/ PermutePriorities

SpecOrder == InitOrder /\ [][NextOrder]_vars

----------------------------------------------------------------------------
(* DigitalVoucher.use_voucher and the VoucherManager around it.  Amounts   *)
(* are Decimals, modelled in whole units; expiration_passed says that      *)
(* expiration_date < timezone.now().                                       *)

MaxVoucherValue == 2   \* largest voucher_value issued
MaxUses == 2           \* entries of usage_history after which no use is recorded

Providers == {"prov1", "prov2"}

VoucherAmounts == (-1)..(MaxVoucherValue + 1)

VoucherRaised(v, error) == [voucher |-> v, raised |-> TRUE, error |-> error]

(* a slip: only a used voucher is refused *)
SpendableUnlessUsed(v) == v.status # "USED"

(* if self.status != 'ACTIVE': raise ValueError *)
Spendable(v) == v.status = "ACTIVE"

(* DigitalVoucher.use_voucher(amount, provider_id, transaction_details) *)
DigitalVoucherUseVoucher(v, amount, provider_id) ==
    IF ~Spendable(v) THEN VoucherRaised(v, "Bon non actif")
    ELSE IF amount > v.remaining_value
    THEN VoucherRaised(v, "Montant superieur au solde")
    ELSE IF v.expiration_passed
    THEN VoucherRaised([v EXCEPT !.status = "EXPIRED"], "Bon expire")
    ELSE IF v.authorized_providers # {} /\ provider_id \notin v.authorized_providers
    THEN VoucherRaised(v, "Prestataire non autorise")
    ELSE LET remaining == v.remaining_value - amount
             used      == remaining <= 0
         IN  [voucher |-> [v EXCEPT
                              !.remaining_value = IF used THEN 0 ELSE remaining,
                              !.usage_history =
                                  Append(v.usage_history,
                                         [amount |-> amount, provider_id |-> provider_id]),
                              !.status = IF used THEN "USED" ELSE v.status],
              raised |-> FALSE,
              value |-> IF used THEN 0 ELSE remaining]

(* VoucherManager.use_voucher: the ValueError becomes success False *)
VoucherManagerUseVoucher(v, amount, provider_id) ==
    LET used == DigitalVoucherUseVoucher(v, amount, provider_id)
    IN  [voucher |-> used.voucher,
         result |-> IF used.raised
                    THEN [call |-> "use_voucher", success |-> FALSE, error |-> used.error]
                    ELSE [call |-> "use_voucher", success |-> TRUE,
                          amount_used |-> amount,
                          remaining_value |-> used.value,
                          status |-> used.voucher.status]]

Invalid(v, error) ==
    [voucher |-> v, result |-> [call |-> "validate_voucher_usage", success |-> FALSE,
                                error |-> error]]

(* VoucherManager.validate_voucher_usage; genuine says that the QR code    *)
(* has three parts, the RSU_VOUCHER tag and the hash of its payload        *)
ValidateVoucherUsageOf(v, genuine, provider_id, amount) ==
    IF ~genuine THEN Invalid(v, "QR code invalide")
    ELSE IF v.status # "ACTIVE" THEN Invalid(v, "Bon non actif")
    ELSE IF v.expiration_passed
    THEN Invalid([v EXCEPT !.status = "EXPIRED"], "Bon expire")
    ELSE IF amount > v.remaining_value THEN Invalid(v, "Montant superieur au solde")
    ELSE IF v.authorized_providers # {} /\ provider_id \notin v.authorized_providers
    THEN Invalid(v, "Prestataire non autorise")
    ELSE [voucher |-> v,
          result |-> [call |-> "validate_voucher_usage", success |-> TRUE,
                      remaining_value |-> v.remaining_value]]

(* VoucherManager.issue_vouchers: remaining_value = voucher_value *)
InitVoucher ==
    /\ PipelineIdle
    /\ EngineIdle
    /\ VulnerabilityIdle
    /\ EnrollmentIdle
    /\ PaymentIdle
    /\ \E value \in 1..MaxVoucherValue, authorized \in {{}, {"prov1"}} :
        voucher = [voucher_value |-> value,
                   remaining_value |-> value,
                   status |-> "ACTIVE",
                   authorized_providers |-> authorized,
                   usage_history |-> <<>>,
                   expiration_passed |-> FALSE]
    /\ voucher_result = NoneVal

UseVoucher ==
    \E amount \in VoucherAmounts, provider_id \in Providers :
        LET used == VoucherManagerUseVoucher(voucher, amount, provider_id)
        IN  /\ Len(used.voucher.usage_history) <= MaxUses
            /\ voucher' = used.voucher
            /\ voucher_result' = used.result
            /\ UNCHANGED <<pipelineVars, engineVars, vulnerabilityVars, enrollmentVars,
                           paymentVars>>

ValidateVoucherUsage ==
    \E amount \in VoucherAmounts, provider_id \in Providers, genuine \in BOOLEAN :
        LET validated == ValidateVoucherUsageOf(voucher, genuine, provider_id, amount)
        IN  /\ voucher' = validated.voucher
            /\ voucher_result' = validated.result
            /\ UNCHANGED <<pipelineVars, engineVars, vulnerabilityVars, enrollmentVars,
                           paymentVars>>

(* the clock passes expiration_date *)
ExpirationPasses ==
    /\ ~voucher.expiration_passed
    /\ voucher' = [voucher EXCEPT !.expiration_passed = TRUE]
    /\ UNCHANGED <<voucher_result, pipelineVars, engineVars, vulnerabilityVars,
                   enrollmentVars, paymentVars>>

(* an administrator cancels the voucher: status 'CANCELLED' *)
CancelVoucher ==
    /\ voucher.status = "ACTIVE"
    /\ voucher' = [voucher EXCEPT !.status = "CANCELLED"]
    /\ UNCHANGED <<voucher_result, pipelineVars, engineVars, vulnerabilityVars,
                   enrollmentVars, paymentVars>>

NextVoucher ==
    \/ UseVoucher
    \/ ValidateVoucherUsage
    \/ ExpirationPasses
    \/ CancelVoucher

SpecVoucher == InitVoucher /\ [][NextVoucher]_vars

----------------------------------------------------------------------------
(* ProgramManagementService.enroll_beneficiary.  Each call works on the    *)
(* SocialProgram instance its caller loaded; the statements of two calls   *)
(* interleave at the database: the count, the insert and program.save().   *)
(* _add_to_waitlist, _calculate_next_evaluation_date and                   *)
(* _get_payment_multiplier are called but defined nowhere in the sources   *)
(* at hand: the first is taken to store a WAITLISTED enrollment, and an    *)
(* enrollment to cost one unit of budget.                                  *)

MaxBeneficiaries == 1   \* largest max_beneficiaries of the program
MaxProgramBudget == 2   \* largest total_budget of the program
MaxEnrollments == 3     \* rows of programs_enrollments after which no call starts

(* constraints: UniqueConstraint(fields=[beneficiary, program],            *)
(*              condition=Q(enrollment_status__in=[ENROLLED, WAITLISTED])) *)
UniqueActiveEnrollment(rows) ==
    \A i, j \in DOMAIN rows : rows[i].beneficiary = rows[j].beneficiary => i = j

(* ProgramEnrollment.objects.filter(program=program,                       *)
(*                                  enrollment_status='ENROLLED').count()  *)
CurrentEnrollments(rows) ==
    Cardinality({i \in DOMAIN rows : rows[i].enrollment_status = "ENROLLED"})

EnrollRaised(p, exc) == [pc |-> "raised", person |-> p, exc |-> exc]

(* self._add_to_waitlist(person, program, eligibility_evaluation, enrollment_data) *)
AddToWaitlist(rows, p) ==
    Append(rows, [beneficiary |-> p, enrollment_status |-> "WAITLISTED"])

InitEnrollment ==
    /\ PipelineIdle
    /\ EngineIdle
    /\ VulnerabilityIdle
    /\ VoucherIdle
    /\ PaymentIdle
    /\ \E max \in 1..MaxBeneficiaries, total \in 1..MaxProgramBudget :
        program = [max_beneficiaries |-> max,
                   current_beneficiaries |-> 0,
                   allocated_budget |-> 0,
                   total_budget |-> total]
    /\ enrollments = <<>>
    /\ enroll_calls = [c \in Calls |-> IdleCall]

(* steps 1 and 2: the eligibility and budget checks, the count of the      *)
(* enrolled, and the waiting list when the program is full                 *)
BeginEnrollment(c, p, is_eligible) ==
    /\ enroll_calls[c].pc \in {"idle", "returned", "raised"}
    /\ Len(enrollments) < MaxEnrollments
    /\ IF ~is_eligible
       THEN /\ enroll_calls' = [enroll_calls EXCEPT ![c] = EnrollRaised(p, "ValueError")]
            /\ UNCHANGED enrollments
       ELSE IF ~IsBudgetAvailable(program.allocated_budget, program.total_budget)
       THEN /\ enroll_calls' = [enroll_calls EXCEPT ![c] = EnrollRaised(p, "ValueError")]
            /\ UNCHANGED enrollments
       ELSE IF /\ program.max_beneficiaries # 0
               /\ CurrentEnrollments(enrollments) >= program.max_beneficiaries
       THEN IF UniqueActiveEnrollment(AddToWaitlist(enrollments, p))
            THEN /\ enrollments' = AddToWaitlist(enrollments, p)
                 /\ enroll_calls' = [enroll_calls EXCEPT ![c] =
                        [pc |-> "returned", person |-> p, status |-> "WAITLISTED"]]
            ELSE /\ enroll_calls' =
                        [enroll_calls EXCEPT ![c] = EnrollRaised(p, "IntegrityError")]
                 /\ UNCHANGED enrollments
       ELSE /\ enroll_calls' = [enroll_calls EXCEPT ![c] =
                   [pc |-> "counted", person |-> p, program |-> program]]
            /\ UNCHANGED enrollments
    /\ UNCHANGED <<program, pipelineVars, engineVars, vulnerabilityVars, voucherVars,
                   paymentVars>>

(* step 5: ProgramEnrollment.objects.create(enrollment_status='ENROLLED') *)
CreateEnrollment(c) ==
    /\ enroll_calls[c].pc = "counted"
    /\ LET row == [beneficiary |-> enroll_calls[c].person,
                   enrollment_status |-> "ENROLLED"]
       IN  IF UniqueActiveEnrollment(Append(enrollments, row))
           THEN /\ enrollments' = Append(enrollments, row)
                /\ enroll_calls' = [enroll_calls EXCEPT ![c].pc = "created"]
           ELSE /\ enrollments' = enrollments
                /\ enroll_calls' = [enroll_calls EXCEPT ![c] =
                       EnrollRaised(enroll_calls[c].person, "IntegrityError")]
    /\ UNCHANGED <<program, pipelineVars, engineVars, vulnerabilityVars, voucherVars,
                   paymentVars>>

(* step 6: the counters of the caller's instance go up and program.save()  *)
(* writes the instance                                                     *)
SaveProgram(c) ==
    /\ enroll_calls[c].pc = "created"
    /\ program' = [enroll_calls[c].program EXCEPT
                      !.current_beneficiaries = @ + 1,
                      !.allocated_budget = @ + 1]
    /\ enroll_calls' = [enroll_calls EXCEPT ![c] =
           [pc |-> "returned", person |-> enroll_calls[c].person, status |-> "ENROLLED"]]
    /\ UNCHANGED <<enrollments, pipelineVars, engineVars, vulnerabilityVars,
                   voucherVars, paymentVars>>

NextEnrollment ==
    \/ \E c \in Calls, p \in Persons, is_eligible \in BOOLEAN :
           BeginEnrollment(c, p, is_eligible)
    \/ \E c \in Calls : CreateEnrollment(c)
    \/ \E c \in Calls : SaveProgram(c)

SpecEnrollment == InitEnrollment /\ [][NextEnrollment]_vars

----------------------------------------------------------------------------
(* process_payment_task and PaymentProcessor.process_payment_sync.  The    *)
(* task is a celery task with max_retries=3; a run of it is two database   *)
(* writes apart: the payment saved as PROCESSING, then saved with the      *)
(* provider's answer.                                                      *)

MaxRetries == 3

PaymentIds == {"pay1", "pay2"}

(* Payment.PAYMENT_METHODS *)
PaymentMethods == {"MOBILE_MONEY", "BANK_TRANSFER", "CASH", "VOUCHER"}

(* the keys of PaymentProcessor.providers *)
ProviderMethods == {"MOBILE_MONEY", "BANK_TRANSFER", "CASH"}

(* what provider.process_payment does: a result with success True or      *)
(* False, or an exception                                                  *)
ProviderOutcomes == {"success", "failure", "exception"}

(* raise self.retry(exc=exc, countdown=countdown): the task runs again     *)
(* unless max_retries runs have been retried already                       *)
Retry(t) ==
    IF t.retries < MaxRetries
    THEN [pc |-> "queued", retries |-> t.retries + 1]
    ELSE [pc |-> "gave_up", retries |-> t.retries]

(* PaymentProcessor.create_payment and process_payment_async *)
InitPayment ==
    /\ PipelineIdle
    /\ EngineIdle
    /\ VulnerabilityIdle
    /\ VoucherIdle
    /\ EnrollmentIdle
    /\ \E methods \in [PaymentIds -> PaymentMethods] :
        payments = [id \in PaymentIds |->
                       [payment_method |-> methods[id],
                        payment_status |-> "PENDING",
                        provider_reference |-> ""]]
    /\ tasks = [id \in PaymentIds |-> [pc |-> "queued", retries |-> 0]]

(* a run of the task up to the first save: the provider is looked up, the  *)
(* payment becomes PROCESSING; the ValueError for a method without         *)
(* provider is raised before the try and is retried by the task            *)
StartPayment(id) ==
    /\ tasks[id].pc = "queued"
    /\ IF payments[id].payment_method \notin ProviderMethods
       THEN /\ tasks' = [tasks EXCEPT ![id] = Retry(tasks[id])]
            /\ UNCHANGED payments
       ELSE /\ payments' = [payments EXCEPT ![id].payment_status = "PROCESSING"]
            /\ tasks' = [tasks EXCEPT ![id].pc = "processing"]
    /\ UNCHANGED <<pipelineVars, engineVars, vulnerabilityVars, voucherVars,
                   enrollmentVars>>

(* the rest of the run: the provider's answer is saved; an exception is    *)
(* saved as FAILED and raised again, and the task retries; after a         *)
(* success the notification is queued, which may raise as well             *)
FinishPayment(id, outcome, notified) ==
    /\ tasks[id].pc = "processing"
    /\ payments' = [payments EXCEPT ![id] =
           IF outcome = "success"
           THEN [@ EXCEPT !.payment_status = "COMPLETED", !.provider_reference = "ref"]
           ELSE [@ EXCEPT !.payment_status = "FAILED"]]
    /\ tasks' = [tasks EXCEPT ![id] =
           IF outcome = "exception" \/ (outcome = "success" /\ ~notified)
           THEN Retry(tasks[id])
           ELSE [pc |-> "done", retries |-> tasks[id].retries]]
    /\ UNCHANGED <<pipelineVars, engineVars, vulnerabilityVars, voucherVars,
                   enrollmentVars>>

NextPayment ==
    \/ \E id \in PaymentIds : StartPayment(id)
    \/ \E id \in PaymentIds, outcome \in ProviderOutcomes, notified \in BOOLEAN :
           FinishPayment(id, outcome, notified)

SpecPayment == InitPayment /\ [][NextPayment]_vars

(* the worker runs every queued task and every run comes to its end *)
SpecPaymentFair ==
    /\ SpecPayment
    /\ \A id \in PaymentIds :
           /\ WF_vars(StartPayment(id))
           /\ WF_vars(\E outcome \in ProviderOutcomes, notified \in BOOLEAN :
                          FinishPayment(id, outcome, notified))

----------------------------------------------------------------------------
(* Properties *)

RuleOf(result) == CHOOSE r \in {eligibility_rules[k] : k \in DOMAIN eligibility_rules} :
                      r.id = result.rule_id

ActualOf(result) == context[RuleOf(result).field_name]

IsNumber(v) == ToFloat(v).ok

ResultIndices == DOMAIN rule_results

(* C1: if at least one mandatory rule has passed = false, the decision is  *)
(* not eligible, whatever the composite score and the budget.              *)
MandatoryFailureDenies ==
    pc = "done" =>
        ((\E i \in ResultIndices :
              RuleOf(rule_results[i]).is_mandatory /\ ~rule_results[i].passed)
         => ~eligibility_result.is_eligible)

(* a mandatory rule failed while another rule scored 100, the composite    *)
(* reached the minimum and the budget was available                        *)
MandatoryFailureDeniesWitness ==
    /\ pc = "done"
    /\ \E i \in ResultIndices :
           RuleOf(rule_results[i]).is_mandatory /\ ~rule_results[i].passed
    /\ \E j \in ResultIndices : rule_results[j].score = RatInt(100)
    /\ RatLE(RatInt(60), CompositeScore(rule_results))
    /\ allocated_budget < total_budget
    /\ ~eligibility_result.is_eligible

(* C2: is_eligible holds exactly when no mandatory rule failed, the        *)
(* composite score is at least 60 and allocated_budget < total_budget.     *)
EligibleIffAllThree ==
    pc = "done" =>
        (eligibility_result.is_eligible <=>
            /\ eligibility_result.failed_mandatory = <<>>
            /\ RatLE(RatInt(60), CompositeScore(rule_results))
            /\ allocated_budget < total_budget)

(* eligible with a composite score of exactly 60 *)
EligibleIffAllThreeWitness ==
    /\ pc = "done"
    /\ eligibility_result.is_eligible
    /\ CompositeScore(rule_results) = RatInt(60)
    /\ Len(rule_results) = 2

(* C3: the composite score returned after the rule evaluation pass lies    *)
(* in [0, 100] (the returned score is in hundredths).                      *)
CompositeWithinRange ==
    pc = "done" =>
        (0 <= eligibility_result.score /\ eligibility_result.score <= 100 * 100)

(* C4: every per-rule score lies in [0, 100] for every operator and every  *)
(* numeric actual and expected value.                                      *)
RuleScoreWithinRange ==
    pc # "start" =>
        \A i \in ResultIndices :
            (IsNumber(ActualOf(rule_results[i]))
             /\ IsNumber(RuleOf(rule_results[i]).expected_value))
            => (RatLE(RatInt(0), rule_results[i].score)
                /\ RatLE(rule_results[i].score, RatInt(100)))

RECURSIVE ConfiguredTotalScore(_)
ConfiguredTotalScore(results) ==
    IF results = <<>> THEN RatInt(0)
    ELSE RatAdd(ConfiguredTotalScore(Tail(results)),
                RatMul(Head(results).score,
                       Rat(RuleOf(Head(results)).weight, WeightScale)))

RECURSIVE ConfiguredTotalWeight(_)
ConfiguredTotalWeight(results) ==
    IF results = <<>> THEN RatInt(0)
    ELSE RatAdd(ConfiguredTotalWeight(Tail(results)),
                Rat(RuleOf(Head(results)).weight, WeightScale))

(* C5: the composite score is the sum of score x configured weight over    *)
(* the evaluated rules divided by the sum of the configured weights, and 0 *)
(* when no rule was evaluated.                                             *)
CompositeUsesConfiguredWeights ==
    pc = "done" =>
        eligibility_result.score =
            (IF rule_results = <<>> THEN 0
             ELSE Round2(RatDiv(ConfiguredTotalScore(rule_results),
                                ConfiguredTotalWeight(rule_results))))

RECURSIVE ConfiguredFailedMandatory(_)
ConfiguredFailedMandatory(results) ==
    IF results = <<>> THEN <<>>
    ELSE (IF RuleOf(Head(results)).is_mandatory /\ ~Head(results).passed
          THEN <<Head(results).rule_name>> ELSE <<>>)
         \o ConfiguredFailedMandatory(Tail(results))

(* C6: failed_mandatory holds exactly the names of the rules configured    *)
(* mandatory whose passed is false, and no non-mandatory rule.             *)
FailedMandatoryOnlyMandatory ==
    pc = "done" =>
        eligibility_result.failed_mandatory = ConfiguredFailedMandatory(rule_results)


ExpectedOf(result) == RuleOf(result).expected_value

OperatorOf(result) == RuleOf(result).operator

(* the actual and expected values of a result are numbers, the expected one positive *)
PositiveThreshold(result) ==
    /\ IsNumber(ActualOf(result))
    /\ IsNumber(ExpectedOf(result))
    /\ RatLT(RatInt(0), ToFloat(ExpectedOf(result)).val)

NumericActuals == {v \in ActualValues : IsNumber(v)}

(* C7: for a positive threshold E, an LT/LTE rule scores 100 when          *)
(* actual <= E, 0 when actual >= 2E, and strictly less at every larger     *)
(* actual inside (E, 2E).                                                  *)
LowerIsBetterShape ==
    pc # "start" =>
        \A i \in ResultIndices :
            LET r == rule_results[i]
                a == ToFloat(ActualOf(r)).val
                e == ToFloat(ExpectedOf(r)).val
                twice == RatMul(RatInt(2), e)
            IN  (OperatorOf(r) \in {"LT", "LTE"} /\ PositiveThreshold(r)) =>
                    /\ RatLE(a, e) => r.score = RatInt(100)
                    /\ RatLE(twice, a) => r.score = RatInt(0)
                    /\ (RatLT(e, a) /\ RatLT(a, twice)) =>
                           \A b \in NumericActuals :
                               (RatLT(a, ToFloat(b).val) /\ RatLT(ToFloat(b).val, twice))
                               => RatLT(CalculateGradualScore(
                                            b, ExpectedOf(r), OperatorOf(r)).score,
                                        r.score)

(* an LT/LTE rule evaluated at an actual inside (E, 2E) that has a larger  *)
(* actual inside the interval to compare with                              *)
LowerIsBetterShapeWitness ==
    /\ pc # "start"
    /\ \E i \in ResultIndices :
           LET r == rule_results[i]
               a == ToFloat(ActualOf(r)).val
               twice == RatMul(RatInt(2), ToFloat(ExpectedOf(r)).val)
           IN  /\ OperatorOf(r) \in {"LT", "LTE"}
               /\ PositiveThreshold(r)
               /\ RatLT(RatInt(0), r.score)
               /\ RatLT(r.score, RatInt(100))
               /\ \E b \in NumericActuals :
                      RatLT(a, ToFloat(b).val) /\ RatLT(ToFloat(b).val, twice)

(* C8: for a positive threshold E, a GT/GTE rule scores 0 when             *)
(* actual <= E/2, 100 when actual >= E, and 100*(actual - E/2)/(E/2) in    *)
(* between.                                                                *)
HigherIsBetterShape ==
    pc # "start" =>
        \A i \in ResultIndices :
            LET r == rule_results[i]
                a == ToFloat(ActualOf(r)).val
                e == ToFloat(ExpectedOf(r)).val
                half == RatDiv(e, RatInt(2))
            IN  (OperatorOf(r) \in {"GT", "GTE"} /\ PositiveThreshold(r)) =>
                    /\ RatLE(a, half) => r.score = RatInt(0)
                    /\ RatLE(e, a) => r.score = RatInt(100)
                    /\ (RatLT(half, a) /\ RatLT(a, e)) =>
                           r.score = RatDiv(RatMul(RatInt(100), RatSub(a, half)), half)

(* a GT/GTE rule evaluated strictly between half the threshold and the threshold *)
HigherIsBetterShapeWitness ==
    /\ pc # "start"
    /\ \E i \in ResultIndices :
           LET r == rule_results[i]
           IN  /\ OperatorOf(r) \in {"GT", "GTE"}
               /\ PositiveThreshold(r)
               /\ RatLT(RatInt(0), r.score)
               /\ RatLT(r.score, RatInt(100))

(* C9: a GT/GTE/LT/LTE rule with expected value 0 and a present actual     *)
(* value is scored without raising: its result carries no error, keeps the *)
(* configured weight and mandatory flag, and where the formula would       *)
(* divide by the expected value the score is 0.                            *)
ZeroThresholdScoresZero ==
    pc # "start" =>
        \A i \in ResultIndices :
            LET r == rule_results[i]
            IN  (/\ OperatorOf(r) \in NumericOperators
                 /\ ExpectedOf(r) = Num(0)
                 /\ ActualOf(r) # NoneVal) =>
                    /\ "error" \notin DOMAIN r
                    /\ "weight" \in DOMAIN r
                    /\ "is_mandatory" \in DOMAIN r
                    /\ GetWeight(r) = Rat(RuleOf(r).weight, WeightScale)
                    /\ GetIsMandatory(r) = RuleOf(r).is_mandatory
                    /\ (/\ OperatorOf(r) \in {"LT", "LTE"}
                        /\ IsNumber(ActualOf(r))
                        /\ RatLT(RatInt(0), ToFloat(ActualOf(r)).val))
                       => r.score = RatInt(0)

(* C10: a rule whose actual value is None does not pass and scores 0,      *)
(* for each of the ten operators.                                          *)
AbsentActualFails ==
    pc # "start" =>
        \A i \in ResultIndices :
            ActualOf(rule_results[i]) = NoneVal =>
                (~rule_results[i].passed /\ rule_results[i].score = RatInt(0))

(* a NOT_IN rule with a non-list expected value evaluated on a None actual *)
AbsentActualFailsWitness ==
    /\ pc # "start"
    /\ \E i \in ResultIndices :
           /\ ActualOf(rule_results[i]) = NoneVal
           /\ OperatorOf(rule_results[i]) = "NOT_IN"
           /\ ExpectedOf(rule_results[i]).kind # "list"
           /\ ~rule_results[i].passed


(* C11: for a present actual value, IN passes exactly when expected is a   *)
(* list containing actual, and NOT_IN passes exactly when expected is not  *)
(* a list or is a list without actual.                                     *)
MembershipOperators ==
    pc # "start" =>
        \A i \in ResultIndices :
            LET r == rule_results[i]
                e == ExpectedOf(r)
                member == /\ e.kind = "list"
                          /\ \E k \in DOMAIN e.list : e.list[k] = ActualOf(r)
            IN  ActualOf(r) # NoneVal =>
                    /\ OperatorOf(r) = "IN" => (r.passed <=> member)
                    /\ OperatorOf(r) = "NOT_IN" =>
                           (r.passed <=> (e.kind # "list" \/ ~member))

(* an IN rule passed on the second item of its list *)
MembershipOperatorsWitness ==
    /\ pc # "start"
    /\ \E i \in ResultIndices :
           LET r == rule_results[i]
           IN  /\ ActualOf(r) # NoneVal
               /\ r.passed
               /\ OperatorOf(r) = "IN"
               /\ Len(ExpectedOf(r).list) = 2
               /\ ExpectedOf(r).list[2] = ActualOf(r)

(* C12: _apply_operator never raises; it returns a boolean for every       *)
(* operator and every pair of values, and false whenever a numeric operand *)
(* of GT/GTE/LT/LTE/BETWEEN cannot be parsed.                              *)
ApplyOperatorNeverRaises ==
    pc # "start" =>
        \A i \in ResultIndices :
            LET r == rule_results[i]
                o == ApplyOperatorOutcome(ActualOf(r), ExpectedOf(r), OperatorOf(r))
            IN  /\ ~o.raised
                /\ (/\ OperatorOf(r) \in NumericOperators
                    /\ (~IsNumber(ActualOf(r)) \/ ~IsNumber(ExpectedOf(r))))
                   => o.value = FALSE


ActiveRuleIds ==
    {eligibility_rules[k].id : k \in {j \in DOMAIN eligibility_rules :
                                          eligibility_rules[j].is_active}}

(* C13: a rule whose evaluation raises is recorded with passed = false,    *)
(* score 0 and an error annotation; the other active rules are still       *)
(* evaluated, and the results hold exactly one entry per active rule and   *)
(* none for an inactive rule.                                              *)
IsolatedRuleFailure ==
    pc # "start" =>
        /\ Len(rule_results) = Cardinality(ActiveRuleIds)
        /\ {rule_results[i].rule_id : i \in ResultIndices} = ActiveRuleIds
        /\ \A i \in ResultIndices :
               LET r == rule_results[i]
               IN  IF EvaluateSingleRule(RuleOf(r), context).raised
                   THEN "error" \in DOMAIN r /\ ~r.passed /\ r.score = RatInt(0)
                   ELSE "error" \notin DOMAIN r /\ "details" \in DOMAIN r

(* a rule raised and a rule of lower priority was evaluated after it *)
IsolatedRuleFailureWitness ==
    /\ pc # "start"
    /\ \E i, j \in ResultIndices :
           /\ i < j
           /\ "error" \in DOMAIN rule_results[i]
           /\ "details" \in DOMAIN rule_results[j]


(* C14: evaluate_person_eligibility never raises: after any sequence of    *)
(* earlier evaluations, also a repeated evaluation of an already eligible  *)
(* person once the cache entry is gone, every call returns an evaluation.  *)
EngineNeverRaises ==
    \A c \in DOMAIN calls : calls[c].pc # "raised"


Calculated == vulnerability_score # NoneVal

(* the stored dimension scores, in hundredths *)
StoredScores ==
    [demographic |-> vulnerability_score.demographic_score,
     economic    |-> vulnerability_score.economic_score,
     social      |-> vulnerability_score.social_score,
     health      |-> vulnerability_score.health_score,
     geographic  |-> vulnerability_score.geographic_score]

DimensionNames == {"demographic", "economic", "social", "health", "geographic"}

(* the dimension weights of the specification, in percent *)
WeightPercent ==
    [demographic |-> 25, economic |-> 35, social |-> 20, health |-> 15,
     geographic |-> 5]

(* C15: each of the five dimension scores lies in [0, 100], also when the  *)
(* additive sub-rules sum above 100, and the overall score is              *)
(* 0.25 demographic + 0.35 economic + 0.20 social + 0.15 health            *)
(* + 0.05 geographic and lies in [0, 100].                                 *)
VulnerabilityWithinRange ==
    Calculated =>
        /\ \A d \in DimensionNames : StoredScores[d] \in 0..10000
        /\ 100 * vulnerability_score.overall_score =
               25 * StoredScores.demographic + 35 * StoredScores.economic
               + 20 * StoredScores.social + 15 * StoredScores.health
               + 5 * StoredScores.geographic
        /\ vulnerability_score.overall_score \in 0..10000
        /\ 100 * overall_score.n = vulnerability_score.overall_score * overall_score.d

(* the economic sub-rules sum above 100 and the score is clamped to 100 *)
VulnerabilityWithinRangeWitness ==
    /\ Calculated
    /\ EconomicPoints(person, context_data) > 100
    /\ vulnerability_score.economic_score = 10000

ScenarioPerson ==
    [id |-> "p1", age |-> 70, gender |-> "F", household_head |-> TRUE,
     marital_status |-> "DIVORCED", dependents_count |-> 4, family_size |-> 1,
     administrative_division |-> "RURAL_1"]

ScenarioContextData ==
    [monthly_income |-> Num(0), employment_status |-> "UNEMPLOYED",
     housing_type |-> "HOMELESS", education_level |-> "NONE",
     health_status |-> "POOR", has_disability |-> TRUE, chronic_illness |-> FALSE]

ScenarioCalculated ==
    /\ Calculated
    /\ person = ScenarioPerson
    /\ context_data = ScenarioContextData

(* C16: for the person aged 70, female, household head, divorced,          *)
(* unemployed, income 0, homeless, 4 dependents, family size 1, no         *)
(* education, poor health, disabled, in a rural division, every dimension  *)
(* score is 100, the overall score is 100 and the level is CRITICAL.       *)
ScenarioAllHundred ==
    ScenarioCalculated =>
        /\ \A d \in DimensionNames : StoredScores[d] = 10000
        /\ vulnerability_score.overall_score = 10000
        /\ vulnerability_score.vulnerability_level = "CRITICAL"

(* C16 as the calculator computes it: demographic 75, economic 100 (155    *)
(* clamped), social 55, health 90, geographic 30, overall 79.75, HIGH.     *)
ScenarioScores ==
    ScenarioCalculated =>
        /\ StoredScores = [demographic |-> 7500, economic |-> 10000,
                           social |-> 5500, health |-> 9000, geographic |-> 3000]
        /\ vulnerability_score.overall_score = 7975
        /\ vulnerability_score.vulnerability_level = "HIGH"

ScenarioScoresWitness ==
    /\ ScenarioCalculated
    /\ vulnerability_level = "HIGH"

AtLeast(score, k) == score.n >= k * score.d

(* C17: the level is a total function of the overall score with inclusive  *)
(* lower bounds: >= 80 CRITICAL, 60 <= s < 80 HIGH, 40 <= s < 60 MODERATE, *)
(* s < 40 LOW, and every score gets exactly one level.                     *)
LevelBands ==
    vulnerability_level # NoLevel =>
        /\ vulnerability_level \in {"CRITICAL", "HIGH", "MODERATE", "LOW"}
        /\ vulnerability_level = "CRITICAL" <=> AtLeast(overall_score, 80)
        /\ vulnerability_level = "HIGH" <=>
               AtLeast(overall_score, 60) /\ ~AtLeast(overall_score, 80)
        /\ vulnerability_level = "MODERATE" <=>
               AtLeast(overall_score, 40) /\ ~AtLeast(overall_score, 60)
        /\ vulnerability_level = "LOW" <=> ~AtLeast(overall_score, 40)

(* a score exactly on a lower bound was classified *)
LevelBandsWitness ==
    /\ vulnerability_level = "HIGH"
    /\ overall_score = RatInt(60)

(* C18: the contributing factors are exactly the dimensions scoring >= 50, *)
(* each once, each with contribution = score x weight, in non-increasing   *)
(* order of contribution.                                                  *)
ContributingFactors ==
    Calculated =>
        LET factors == vulnerability_score.contributing_factors
        IN  /\ {factors[i].dimension : i \in DOMAIN factors} =
                   {d \in DimensionNames : StoredScores[d] >= 5000}
            /\ \A i, j \in DOMAIN factors :
                   factors[i].dimension = factors[j].dimension => i = j
            /\ \A i \in DOMAIN factors :
                   /\ 100 * factors[i].score = StoredScores[factors[i].dimension]
                   /\ factors[i].contribution =
                          Rat(factors[i].score * WeightPercent[factors[i].dimension], 100)
            /\ \A i \in DOMAIN factors :
                   i < Len(factors) =>
                       RatLE(factors[i + 1].contribution, factors[i].contribution)

(* a dimension scoring exactly 50 is listed, behind a larger contribution, *)
(* and a dimension below 50 is left out                                    *)
ContributingFactorsWitness ==
    /\ Calculated
    /\ vulnerability_score.health_score = 5000
    /\ vulnerability_score.social_score < 5000
    /\ Len(vulnerability_score.contributing_factors) >= 2
    /\ vulnerability_score.contributing_factors[
           Len(vulnerability_score.contributing_factors)].dimension = "health"


ScenarioDecided ==
    /\ pc = "done"
    /\ eligibility_rules = ScenarioRules(200, TRUE, 100, FALSE)
    /\ context = [age |-> Num(25), monthly_income |-> Num(150000)]
    /\ allocated_budget < total_budget

(* C19: with rules [GTE age 18, weight 2, mandatory] and [LTE income       *)
(* 75000, weight 1, not mandatory], age 25, income 150000 and budget       *)
(* available, the age rule passes with score 100, the income rule scores   *)
(* 0, the composite score is 66.67, no mandatory rule failed and the       *)
(* decision is eligible.                                                   *)
ScenarioEligible ==
    ScenarioDecided =>
        /\ rule_results[1].passed
        /\ rule_results[1].score = RatInt(100)
        /\ rule_results[2].score = RatInt(0)
        /\ eligibility_result.score = 6667
        /\ eligibility_result.failed_mandatory = <<>>
        /\ eligibility_result.is_eligible

ScenarioEligibleWitness ==
    /\ ScenarioDecided
    /\ ~rule_results[2].passed
    /\ eligibility_result.total_rules_evaluated = 2

(* C20: the confidence is min(100, 0.8 x composite score + 2 x number of   *)
(* rules evaluated), rounded to two places; it lies in [0, 100] and, the   *)
(* composite score staying the same, does not decrease when more rules     *)
(* are evaluated.                                                          *)
ConfidenceFormula ==
    pc = "done" =>
        LET composite == CompositeScore(rule_results)
            count     == Len(rule_results)
            raw       == Rat(8 * composite.n + 20 * count * composite.d,
                             10 * composite.d)
        IN  /\ eligibility_result.confidence =
                   (IF RatLE(RatInt(100), raw) THEN 10000 ELSE Round2(raw))
            /\ eligibility_result.confidence \in 0..10000
            /\ CompositeScore(rule_results \o rule_results) = composite
            /\ Round2(Confidence(rule_results \o rule_results))
                   >= eligibility_result.confidence

(* two rules evaluated, one of them failed, a positive composite score     *)
(* and a confidence below the cap                                          *)
ConfidenceFormulaWitness ==
    /\ pc = "done"
    /\ Len(rule_results) = 2
    /\ \E i \in ResultIndices : ~rule_results[i].passed
    /\ RatLT(RatInt(0), CompositeScore(rule_results))
    /\ eligibility_result.confidence < 10000

(* C21: two runs of rule evaluation and aggregation over the same rule set, *)
(* context and budget return the same decision: is_eligible, score,        *)
(* confidence, failed_mandatory and the number of rules evaluated.         *)
RunsDeterministic ==
    \A i, j \in DOMAIN decisions :
        decisions[i].rules = decisions[j].rules
            => decisions[i].result = decisions[j].result

NamesOf(names) == {names[i] : i \in DOMAIN names}

(* no two rules of equal priority: the order of evaluation is fixed *)
DistinctPriorities(rules) ==
    \A i, j \in DOMAIN rules : rules[i].priority = rules[j].priority => i = j

(* C22: however the priorities 1, 2, 3 are dealt out to the rules of a set, *)
(* the runs return the same is_eligible, composite score, confidence and   *)
(* set of failed mandatory rule names.                                     *)
PriorityInvariance ==
    \A i, j \in DOMAIN decisions :
        DistinctPriorities(decisions[i].rules) /\ DistinctPriorities(decisions[j].rules) =>
        /\ decisions[i].result.is_eligible = decisions[j].result.is_eligible
        /\ decisions[i].result.score = decisions[j].result.score
        /\ decisions[i].result.confidence = decisions[j].result.confidence
        /\ NamesOf(decisions[i].result.failed_mandatory)
               = NamesOf(decisions[j].result.failed_mandatory)


(* the stored rows of a person *)
StoredRowsOf(id) ==
    {i \in DOMAIN vulnerability_scores : vulnerability_scores[i].person = id}

(* C23: after any sequence of calculate_vulnerability_score calls a person *)
(* has at most one stored row, the person of the latest call has the row   *)
(* that call computed, and no call changes the row of another person.      *)
OneScorePerPerson ==
    /\ [](/\ \A id \in {"p1", "p2"} : Cardinality(StoredRowsOf(id)) <= 1
          /\ person # NoneVal =>
                \E i \in StoredRowsOf(person.id) :
                    vulnerability_scores[i] = VulnerabilityScoreRow(person, context_data))
    /\ [][\A id \in {"p1", "p2"} :
            id # person'.id =>
                /\ StoredRowsOf(id)' = StoredRowsOf(id)
                /\ \A i \in StoredRowsOf(id) :
                       vulnerability_scores'[i] = vulnerability_scores[i]]_vars

(* both persons have a row, and the latest call recomputed the score of    *)
(* the person whose row was created first, with a different result         *)
OneScorePerPersonWitness ==
    /\ Len(vulnerability_scores) = 2
    /\ person # NoneVal
    /\ vulnerability_scores[1].person = person.id
    /\ vulnerability_scores[1].overall_score # vulnerability_scores[2].overall_score


OneEligibleEvaluation ==
    \A p \in Persons :
        Cardinality({i \in DOMAIN evaluations :
                        evaluations[i].person = p /\ evaluations[i].is_eligible}) <= 1

(* a person has an eligible row and no cache entry, and a further call for *)
(* the person that found them eligible again was refused by the table      *)
OneEligibleEvaluationWitness ==
    \E c \in Calls :
        /\ calls[c].pc = "raised"
        /\ cache[calls[c].person] = NoEvaluation
        /\ \E i \in DOMAIN evaluations :
               evaluations[i].person = calls[c].person /\ evaluations[i].is_eligible


(* C26: a rule result with passed = true has the score 100, whatever the  *)
(* operator; the graduated scorer only moves the score of results that did *)
(* not pass.                                                               *)
PassedScoresHundred ==
    \A i \in DOMAIN rule_results :
        /\ GetPassed(rule_results[i]) => GetScore(rule_results[i]) = RatInt(100)
        /\ (/\ "details" \in DOMAIN rule_results[i]
            /\ GetScore(rule_results[i]) # RatInt(0)
            /\ GetScore(rule_results[i]) # RatInt(100))
           => /\ ~GetPassed(rule_results[i])
              /\ rule_results[i].details.operator \in NumericOperators

(* a rule with an ordering operator passed, so the graduated scorer set    *)
(* its score                                                               *)
PassedScoresHundredWitness ==
    /\ pc = "rules_evaluated"
    /\ Len(rule_results) = 1
    /\ GetPassed(rule_results[1])
    /\ rule_results[1].details.operator \in NumericOperators
    /\ rule_results[1].details.expected_value = Num(-2)


RECURSIVE SumAmounts(_)
SumAmounts(history) ==
    IF history = <<>> THEN 0
    ELSE history[Len(history)].amount + SumAmounts(SubSeq(history, 1, Len(history) - 1))

(* C27: after any sequence of use_voucher calls, with amounts of either    *)
(* sign and zero, 0 <= remaining_value <= voucher_value, remaining_value   *)
(* plus the amounts of usage_history is voucher_value, and after a         *)
(* successful use the status is USED exactly when remaining_value is 0.    *)
VoucherBalance ==
    /\ 0 <= voucher.remaining_value
    /\ voucher.remaining_value <= voucher.voucher_value
    /\ voucher.remaining_value + SumAmounts(voucher.usage_history) = voucher.voucher_value
    /\ (/\ voucher_result # NoneVal
        /\ voucher_result.call = "use_voucher"
        /\ voucher_result.success)
       => (voucher_result.status = "USED" <=> voucher_result.remaining_value = 0)

TerminalStatuses == {"USED", "EXPIRED", "CANCELLED"}

(* C28: a call on a voucher that is USED, EXPIRED or CANCELLED fails and   *)
(* leaves remaining_value, usage_history and status as they were; a failed *)
(* use of an ACTIVE voucher leaves remaining_value and usage_history as    *)
(* they were.                                                              *)
TerminalVouchers ==
    [][/\ voucher.status \in TerminalStatuses
          => /\ voucher'.remaining_value = voucher.remaining_value
             /\ voucher'.usage_history = voucher.usage_history
             /\ voucher'.status = voucher.status
             /\ voucher_result' # voucher_result => ~voucher_result'.success
       /\ (voucher_result' # voucher_result /\ ~voucher_result'.success)
          => /\ voucher'.remaining_value = voucher.remaining_value
             /\ voucher'.usage_history = voucher.usage_history]_vars

(* a cancelled voucher with money left on it was presented and refused     *)
TerminalVouchersWitness ==
    /\ voucher.status = "CANCELLED"
    /\ voucher.remaining_value > 0
    /\ voucher.usage_history # <<>>
    /\ voucher_result # NoneVal
    /\ voucher_result.call = "use_voucher"
    /\ ~voucher_result.success
    /\ voucher_result.error = "Bon non actif"


(* C29: under any interleaving of enroll_beneficiary calls the number of  *)
(* ENROLLED enrollments stays within max_beneficiaries, and once every     *)
(* call has returned or raised, current_beneficiaries is that number.      *)
EnrollmentWithinCapacity ==
    /\ CurrentEnrollments(enrollments) <= program.max_beneficiaries
    /\ (\A c \in Calls : enroll_calls[c].pc \in {"idle", "returned", "raised"})
       => program.current_beneficiaries = CurrentEnrollments(enrollments)


(* C30: every payment handed to process_payment_task ends up COMPLETED or *)
(* FAILED for good, it is COMPLETED only with the provider's reference of  *)
(* a successful payment, and once COMPLETED it keeps that status.          *)
PaymentSettles ==
    /\ \A id \in PaymentIds :
           <>[](payments[id].payment_status \in {"COMPLETED", "FAILED"})
    /\ [](\A id \in PaymentIds :
              payments[id].payment_status = "COMPLETED"
                  => payments[id].provider_reference = "ref")
    /\ [][\A id \in PaymentIds :
              payments[id].payment_status = "COMPLETED"
                  => payments'[id].payment_status = "COMPLETED"]_vars


====
